---- MODULE Spec2Model ----
(***************************************************************************)
(* TrunkSDR: call tracker (CallManager), audio router (AudioOutput),       *)
(* status loop (main), P25 trunking-signalling decoder (P25Decoder),       *)
(* sample source (RTLSDRSource), TETRA call signalling (TETRADecoder) and  *)
(* the framers of the P25, SmartNet, DMR and TETRA decoders.               *)
(***************************************************************************)
EXTENDS Integers, Sequences, FiniteSets, TLC

(***************************************************************************)
(* Bounds of the model                                                     *)
(***************************************************************************)
MaxNow == 5001
MaxRunTime == 10001
MaxCalls == 2
MaxFrames == 2
MaxQueue == 3
MaxTSBKs == 3
MaxStarts == 3
MaxBuffers == 4
MaxTetraCalls == 3
\* symbols a stream runs on after the last frame it carries
MaxTail == 2
\* outbound signalling words handed to SmartNetDecoder::processFrame
MaxOSWs == 2
MaxDMRCalls == 2
MaxBursts == 3

(***************************************************************************)
(* Program constants                                                       *)
(***************************************************************************)
CALL_TIMEOUT_MS == 5000
DEFAULT_PRIORITY == 5
STATUS_PERIOD_MS == 10000
SLEEP_MS == 1000

(***************************************************************************)
(* Input domains                                                           *)
(***************************************************************************)
Talkgroups == {101, 777}
\* Frequency values are counted in units of FreqUnitHz Hz
FreqUnitHz == 500
Hz(f) == f \div FreqUnitHz
\* amounts by which the clock is seen to advance between two operations of the call tracker
ClockSteps == {5000, 5001}
\* durations of one iteration of the status loop; each is at least one sleep
LoopSteps == {2500, 2501}
VoicePCM == <<100>>
PCMInputs == {<<>>, VoicePCM}
GrantInputs ==
    { [talkgroup |-> tg, radio_id |-> rf[1], frequency |-> rf[2], encrypted |-> FALSE] :
        tg \in Talkgroups, rf \in {<<5678, Hz(851250000)>>, <<0, Hz(850002500)>>} }

NoFrame == [seq |-> 0]
NoRef == [tg |-> 0, valid |-> TRUE]

VARIABLES
    active_calls_,          \* CallManager::active_calls_ (map TalkgroupID -> ActiveCall)
    total_calls_,           \* CallManager::total_calls_
    enabled_talkgroups_,    \* CallManager::enabled_talkgroups_ (map TalkgroupID -> bool)
    talkgroup_priorities_,  \* CallManager::talkgroup_priorities_
    now,                    \* system_clock, in ms
    last_status,            \* main(): last_status
    audio_queue_,           \* AudioOutput::audio_queue_
    queue_mutex_,           \* AudioOutput::queue_mutex_ (owner)
    playing_,               \* AudioOutput::playing_
    worker_pc,              \* position of the playback thread
    worker_frame,           \* processQueue(): local frame
    sink,                   \* frames written with pa_simple_write, in order
    frames_made,            \* number of frames handed to queueAudio so far
    reader_ref,             \* pointer returned by getActiveCall to its caller
    reader_result,          \* what the caller's last read through the pointer gave
    frequency_table_,       \* P25Decoder::frequency_table_
    grants,                 \* grants delivered to grant_callback_, in order
    tsbk_log,               \* TSBKs processed so far, in order
    sdr,                    \* RTLSDRSource: running_, reader_thread_, the device's async state, position of stop()
    tetra,                  \* TETRADecoder: active_calls_, calls_decoded_
    stream,                 \* the symbol stream the demodulator delivers
    fed,                    \* number of symbols of the stream handed to processSymbols so far
    call_left,              \* symbols of the current processSymbols call not yet looped over
    p25,                    \* P25Decoder: bit_buffer_, sync_locked_, sync_errors_, ...
    smartnet,               \* SmartNetDecoder: bit_buffer_, sync_locked_, sync_errors_, ...
    dmr,                    \* DMRDecoder: bit_buffer_, sync_locked_, bits_since_sync_, current_slot_
    tetra_phy,              \* TETRAPhysicalLayer: bit_buffer_, sync_locked_, counters
    frame_log,              \* frames and slots the framer has taken, in order
    controller,             \* TrunkController: running_, current_control_freq_, current_voice_freq_, voice_active_, the control SDR's current_frequency_
    dmr_trunk,              \* DMRDecoder: color codes, rest_channel_freq_, active_calls_, calls_decoded_, slot_active_
    system_infos,           \* system identifiers delivered to system_info_callback_, in order
    burst_log,              \* bursts taken from the physical layer's queue, in order
    twin,                   \* a second DMRDecoder given the same symbols one per call
    locks,                  \* owners of the three mutexes and each thread's position
    startup                 \* TrunkController::start() against the SDR's reader thread

cmVars == <<active_calls_, total_calls_, enabled_talkgroups_, talkgroup_priorities_>>
audioVars == <<audio_queue_, queue_mutex_, playing_, worker_pc, worker_frame, sink, frames_made>>
p25Vars == <<frequency_table_, grants, tsbk_log>>
readerVars == <<reader_ref, reader_result>>
frameVars == <<stream, fed, call_left, p25, smartnet, dmr, tetra_phy, frame_log>>
trunkVars == <<controller, dmr_trunk, system_infos, burst_log>>
syncVars == <<twin, locks, startup>>
rxVars == <<sdr, tetra, trunkVars, frameVars, syncVars>>
vars == <<active_calls_, total_calls_, enabled_talkgroups_, talkgroup_priorities_, now,
          last_status, audio_queue_, queue_mutex_, playing_, worker_pc, worker_frame,
          sink, frames_made, reader_ref, reader_result, frequency_table_, grants, tsbk_log,
          sdr, tetra, stream, fed, call_left, p25, smartnet, dmr, tetra_phy, frame_log,
          controller, dmr_trunk, system_infos, burst_log, twin, locks, startup>>

(***************************************************************************)
(* std::map helpers                                                        *)
(***************************************************************************)
EmptyMap == [x \in {} |-> 0]
MapPut(m, k, v) == [x \in (DOMAIN m) \cup {k} |-> IF x = k THEN v ELSE m[x]]
MapErase(m, K) == [x \in (DOMAIN m) \ K |-> m[x]]

\* RTLSDRSource after its constructor and initialize(): device open, no reader thread
SdrInit ==
    [running_ |-> FALSE, reader_thread_ |-> "none", async_status |-> "INACTIVE",
     stop_pc |-> "idle", starts |-> 0, buffers |-> 0]
\* TETRADecoder after initialize()
TetraInit == [active_calls_ |-> EmptyMap, calls_decoded_ |-> 0]
\* no signal tuned yet
NoStream == [proto |-> "none"]
\* The decoders after initialize().  bit_buffer_ always holds consecutive bits of the
\* stream (bits enter at the back and leave at the front): it is kept as the stream
\* offset of its first bit (bit_head) and its length (bit_size).
P25Init ==
    [bit_head |-> 0, bit_size |-> 0, sync_locked_ |-> FALSE, sync_errors_ |-> 0,
     expected_nac_ |-> 0, current_nac_ |-> 0, frames_decoded_ |-> 0]
SmartNetInit ==
    [bit_head |-> 0, bit_size |-> 0, sync_locked_ |-> FALSE, sync_errors_ |-> 0,
     frames_decoded_ |-> 0]
DMRInit ==
    [bit_head |-> 0, bit_size |-> 0, sync_locked_ |-> FALSE, bits_since_sync_ |-> 0,
     current_slot_ |-> 0]
TetraPhyInit ==
    [bit_head |-> 0, bit_size |-> 0, sync_locked_ |-> FALSE, bits_since_sync_ |-> 0,
     current_slot_ |-> 0, current_frame_ |-> 0, current_multiframe_ |-> 0,
     frames_without_sync_ |-> 0, crc_errors_ |-> 0]

\* TrunkController after its constructor; current_frequency_ is the control SDR's
ControllerInit ==
    [running_ |-> FALSE, current_control_freq_ |-> 0, current_voice_freq_ |-> 0,
     voice_active_ |-> FALSE, current_frequency_ |-> 0]
\* DMRDecoder after its constructor and initialize(); highest_read_ is the highest index
\* bitsToUint32 has read in a BPTC-decoded payload so far (-1: none read yet)
DMRTrunkInit ==
    [expected_color_code_ |-> 1, detected_color_code_ |-> 0, rest_channel_freq_ |-> 0,
     active_calls_ |-> EmptyMap, calls_decoded_ |-> 0, slot_active_ |-> <<FALSE, FALSE>>,
     highest_read_ |-> -1]

\* the second DMRDecoder after initialize(), and the slots it has processed
TwinInit == [dmr |-> DMRInit, log |-> <<>>]

\* the threads that use the call tracker and the audio router: two callers of
\* CallManager (the SDR reader thread through the decoder's callbacks, the main
\* thread) and AudioOutput's playback thread
Threads == {"reader", "main", "playback"}
\* no mutex held, no operation running
LocksInit ==
    [calls_mutex_ |-> "free", config_mutex_ |-> "free", queue_mutex_ |-> "free",
     op |-> [t \in Threads |-> "none"], pc |-> [t \in Threads |-> 0]]

\* TrunkController after initialize(), before start(): no callback registered in the
\* SDR source or the demodulator, no reader thread
StartupInit ==
    [pc |-> "idle", reader_thread_ |-> FALSE, sample_callback_ |-> FALSE,
     symbol_callback_ |-> FALSE, running_ |-> FALSE, buffers |-> 0, discarded |-> 0,
     delivered |-> 0, symbol_buffer_ |-> 0, dropped |-> 0, decoded |-> 0, race |-> FALSE]

Init ==
    /\ active_calls_ = EmptyMap
    /\ total_calls_ = 0
    /\ enabled_talkgroups_ = EmptyMap
    /\ talkgroup_priorities_ = EmptyMap
    /\ now = 0
    /\ last_status = 0
    /\ audio_queue_ = <<>>
    /\ queue_mutex_ = "free"
    /\ playing_ = FALSE
    /\ worker_pc = "idle"
    /\ worker_frame = NoFrame
    /\ sink = <<>>
    /\ frames_made = 0
    /\ reader_ref = NoRef
    /\ reader_result = "none"
    /\ frequency_table_ = EmptyMap
    /\ grants = <<>>
    /\ tsbk_log = <<>>
    /\ sdr = SdrInit
    /\ tetra = TetraInit
    /\ stream = NoStream
    /\ fed = 0
    /\ call_left = 0
    /\ p25 = P25Init
    /\ smartnet = SmartNetInit
    /\ dmr = DMRInit
    /\ tetra_phy = TetraPhyInit
    /\ frame_log = <<>>
    /\ controller = ControllerInit
    /\ dmr_trunk = DMRTrunkInit
    /\ system_infos = <<>>
    /\ burst_log = <<>>
    /\ twin = TwinInit
    /\ locks = LocksInit
    /\ startup = StartupInit

(***************************************************************************)
(* CallManager                                                             *)
(* Each handler runs under calls_mutex_ (the policy lookup under           *)
(* config_mutex_), so a handler is one step.  handleAudioFrame also needs  *)
(* queue_mutex_ for queueAudio and waits while the playback thread has it. *)
(***************************************************************************)
isTalkgroupEnabled(tg) ==
    IF tg \in DOMAIN enabled_talkgroups_
    THEN enabled_talkgroups_[tg]
    ELSE DOMAIN enabled_talkgroups_ = {}

\* A pointer into the map obtained from getActiveCall dangles once its node is erased.
InvalidateRef(erased) ==
    IF reader_ref.tg \in erased THEN [reader_ref EXCEPT !.valid = FALSE] ELSE reader_ref

\* handleGrant whose repeated grant also stores the new grant in the call
handleGrant_body_Restore(grant) ==
    /\ total_calls_ < MaxCalls
    /\ IF ~isTalkgroupEnabled(grant.talkgroup)
       THEN UNCHANGED <<active_calls_, total_calls_>>
       ELSE IF grant.talkgroup \in DOMAIN active_calls_
       THEN /\ active_calls_' = [active_calls_ EXCEPT ![grant.talkgroup].last_activity = now,
                                                      ![grant.talkgroup].grant = grant]
            /\ UNCHANGED total_calls_
       ELSE /\ active_calls_' = MapPut(active_calls_, grant.talkgroup,
                                   [grant |-> grant, start_time |-> now,
                                    last_activity |-> now, frame_count |-> 0])
            /\ total_calls_' = total_calls_ + 1

\* the body of handleGrant: what it does to active_calls_ and total_calls_
handleGrant_body(grant) ==
    /\ total_calls_ < MaxCalls
    /\ IF ~isTalkgroupEnabled(grant.talkgroup)
       THEN UNCHANGED <<active_calls_, total_calls_>>
       ELSE IF grant.talkgroup \in DOMAIN active_calls_
       THEN /\ active_calls_' = [active_calls_ EXCEPT ![grant.talkgroup].last_activity = now]
            /\ UNCHANGED total_calls_
       ELSE /\ active_calls_' = MapPut(active_calls_, grant.talkgroup,
                                   [grant |-> grant, start_time |-> now,
                                    last_activity |-> now, frame_count |-> 0])
            /\ total_calls_' = total_calls_ + 1

\* handleGrant without the check for an already active call
handleGrant_NoFind(grant) ==
    /\ total_calls_ < MaxCalls
    /\ IF ~isTalkgroupEnabled(grant.talkgroup)
       THEN UNCHANGED <<active_calls_, total_calls_>>
       ELSE /\ active_calls_' = MapPut(active_calls_, grant.talkgroup,
                                   [grant |-> grant, start_time |-> now,
                                    last_activity |-> now, frame_count |-> 0])
            /\ total_calls_' = total_calls_ + 1
    /\ UNCHANGED <<enabled_talkgroups_, talkgroup_priorities_, now, last_status,
                   audioVars, readerVars, p25Vars, rxVars>>

handleGrant(grant) ==
    /\ handleGrant_body(grant)
    /\ UNCHANGED <<enabled_talkgroups_, talkgroup_priorities_, now, last_status,
                   audioVars, readerVars, p25Vars, rxVars>>

queueAudio(frame) == Append(audio_queue_, frame)

\* handleAudioFrame looking the call up with operator[], which creates a missing entry
handleAudioFrame_Implicit(talkgroup, audio) ==
    LET call == IF talkgroup \in DOMAIN active_calls_
                THEN active_calls_[talkgroup]
                ELSE [grant |-> [talkgroup |-> talkgroup, radio_id |-> 0, frequency |-> 0,
                                 encrypted |-> FALSE],
                      start_time |-> 0, last_activity |-> 0, frame_count |-> 0]
    IN
    /\ frames_made < MaxFrames
    /\ Len(audio_queue_) < MaxQueue
    /\ queue_mutex_ = "free"
    /\ active_calls_' = MapPut(active_calls_, talkgroup,
                               [call EXCEPT !.last_activity = now, !.frame_count = @ + 1])
    /\ audio_queue_' = queueAudio([samples |-> audio, talkgroup |-> talkgroup,
                                   radio_id |-> call.grant.radio_id, seq |-> frames_made + 1])
    /\ frames_made' = frames_made + 1
    /\ UNCHANGED <<total_calls_, enabled_talkgroups_, talkgroup_priorities_, now, last_status,
                   queue_mutex_, playing_, worker_pc, worker_frame, sink, readerVars, p25Vars, rxVars>>

handleAudioFrame(talkgroup, audio) ==
    /\ frames_made < MaxFrames
    /\ Len(audio_queue_) < MaxQueue
    /\ queue_mutex_ = "free"
    /\ IF talkgroup \notin DOMAIN active_calls_
       THEN UNCHANGED <<active_calls_, audio_queue_, frames_made>>
       ELSE /\ active_calls_' = [active_calls_ EXCEPT
                                   ![talkgroup].last_activity = now,
                                   ![talkgroup].frame_count = @ + 1]
            /\ audio_queue_' = queueAudio([samples |-> audio, talkgroup |-> talkgroup,
                                   radio_id |-> active_calls_[talkgroup].grant.radio_id,
                                   seq |-> frames_made + 1])
            /\ frames_made' = frames_made + 1
    /\ UNCHANGED <<total_calls_, enabled_talkgroups_, talkgroup_priorities_, now, last_status,
                   queue_mutex_, playing_, worker_pc, worker_frame, sink, readerVars, p25Vars, rxVars>>

\* endCall that also takes the call back out of the total
endCall_Uncount(talkgroup) ==
    /\ IF talkgroup \notin DOMAIN active_calls_
       THEN UNCHANGED <<active_calls_, reader_ref, total_calls_>>
       ELSE /\ active_calls_' = MapErase(active_calls_, {talkgroup})
            /\ reader_ref' = InvalidateRef({talkgroup})
            /\ total_calls_' = total_calls_ - 1
    /\ UNCHANGED <<enabled_talkgroups_, talkgroup_priorities_, now, last_status,
                   audioVars, reader_result, p25Vars, rxVars>>

\* endCall that empties the whole map
endCall_Clear(talkgroup) ==
    /\ IF talkgroup \notin DOMAIN active_calls_
       THEN UNCHANGED <<active_calls_, reader_ref>>
       ELSE /\ active_calls_' = EmptyMap
            /\ reader_ref' = InvalidateRef(DOMAIN active_calls_)
    /\ UNCHANGED <<total_calls_, enabled_talkgroups_, talkgroup_priorities_, now, last_status,
                   audioVars, reader_result, p25Vars, rxVars>>

endCall(talkgroup) ==
    /\ IF talkgroup \notin DOMAIN active_calls_
       THEN UNCHANGED <<active_calls_, reader_ref>>
       ELSE /\ active_calls_' = MapErase(active_calls_, {talkgroup})
            /\ reader_ref' = InvalidateRef({talkgroup})
    /\ UNCHANGED <<total_calls_, enabled_talkgroups_, talkgroup_priorities_, now, last_status,
                   audioVars, reader_result, p25Vars, rxVars>>

enableTalkgroup(talkgroup, priority) ==
    /\ enabled_talkgroups_' = MapPut(enabled_talkgroups_, talkgroup, TRUE)
    /\ talkgroup_priorities_' = MapPut(talkgroup_priorities_, talkgroup, priority)
    /\ UNCHANGED <<active_calls_, total_calls_, now, last_status, audioVars, readerVars, p25Vars, rxVars>>

\* disableTalkgroup that also drops the talkgroup's active call
disableTalkgroup_DropsCall(talkgroup) ==
    /\ enabled_talkgroups_' = MapPut(enabled_talkgroups_, talkgroup, FALSE)
    /\ active_calls_' = MapErase(active_calls_, {talkgroup})
    /\ UNCHANGED <<total_calls_, talkgroup_priorities_, now, last_status,
                   audioVars, readerVars, p25Vars, rxVars>>

disableTalkgroup(talkgroup) ==
    /\ enabled_talkgroups_' = MapPut(enabled_talkgroups_, talkgroup, FALSE)
    /\ UNCHANGED <<active_calls_, total_calls_, talkgroup_priorities_, now, last_status,
                   audioVars, readerVars, p25Vars, rxVars>>

\* the sweep's test with the bound included
TimedOut_AtLeast(call, t) == t - call.last_activity >= CALL_TIMEOUT_MS

TimedOut(call, t) == t - call.last_activity > CALL_TIMEOUT_MS

cleanupInactiveCalls ==
    LET expired == {tg \in DOMAIN active_calls_ : TimedOut(active_calls_[tg], now)} IN
    /\ active_calls_' = MapErase(active_calls_, expired)
    /\ reader_ref' = InvalidateRef(expired)
    /\ UNCHANGED <<total_calls_, enabled_talkgroups_, talkgroup_priorities_, now, last_status,
                   audioVars, reader_result, p25Vars, rxVars>>

\* std::chrono::system_clock advancing between operations
ClockAdvance ==
    /\ \E d \in ClockSteps :
        /\ now + d <= MaxNow
        /\ now' = now + d
    /\ UNCHANGED <<cmVars, last_status, audioVars, readerVars, p25Vars, rxVars>>

(***************************************************************************)
(* CallManager::getActiveCall and its caller                               *)
(***************************************************************************)
getActiveCall(talkgroup) ==
    /\ reader_ref' = IF talkgroup \in DOMAIN active_calls_
                     THEN [tg |-> talkgroup, valid |-> TRUE]
                     ELSE NoRef
    /\ UNCHANGED <<cmVars, now, last_status, audioVars, reader_result, p25Vars, rxVars>>

\* The caller reads through the returned ActiveCall*; through a dangling pointer
\* the read is undefined: it may appear to work, yield garbage, or fault.
DerefOutcomes == {"entry", "garbage", "fault"}

derefActiveCall ==
    /\ reader_ref # NoRef
    /\ \E outcome \in DerefOutcomes :
        /\ reader_ref.valid => outcome = "entry"
        /\ reader_result' = outcome
    /\ UNCHANGED <<cmVars, now, last_status, audioVars, reader_ref, p25Vars, rxVars>>

releaseActiveCall ==
    /\ reader_ref # NoRef
    /\ reader_ref' = NoRef
    /\ UNCHANGED <<cmVars, now, last_status, audioVars, reader_result, p25Vars, rxVars>>

(***************************************************************************)
(* AudioOutput: playback thread                                            *)
(***************************************************************************)
\* processQueue() on an empty queue: lock, playing_ = false, return
processQueue_Empty ==
    /\ worker_pc = "idle"
    /\ queue_mutex_ = "free"
    /\ audio_queue_ = <<>>
    /\ playing_' = FALSE
    /\ UNCHANGED <<cmVars, now, last_status, audio_queue_, queue_mutex_, worker_pc,
                   worker_frame, sink, frames_made, readerVars, p25Vars, rxVars>>

\* std::queue::back instead of front
NextFrame_Back(q) == q[Len(q)]

NextFrame(q) == Head(q)

\* processQueue() up to the call of playAudio: lock, front(), pop()
processQueue_Pop ==
    /\ worker_pc = "idle"
    /\ queue_mutex_ = "free"
    /\ audio_queue_ # <<>>
    /\ queue_mutex_' = "worker"
    /\ worker_frame' = NextFrame(audio_queue_)
    /\ audio_queue_' = Tail(audio_queue_)
    /\ worker_pc' = "play"
    /\ UNCHANGED <<cmVars, now, last_status, playing_, sink, frames_made, readerVars, p25Vars, rxVars>>

\* playAudio(frame.samples) and the return of processQueue(), which unlocks
playAudio ==
    /\ worker_pc = "play"
    /\ IF worker_frame.samples = <<>>
       THEN UNCHANGED <<sink, playing_>>
       ELSE /\ sink' = Append(sink, worker_frame)
            /\ playing_' = TRUE
    /\ queue_mutex_' = "free"
    /\ worker_frame' = NoFrame
    /\ worker_pc' = "idle"
    /\ UNCHANGED <<cmVars, now, last_status, audio_queue_, frames_made, readerVars, p25Vars, rxVars>>

(***************************************************************************)
(* TrunkController and main(): the running system                          *)
(***************************************************************************)
\* handleCallGrant following the call: it also marks the granted frequency as the voice channel
handleCallGrant_Follows(grant) ==
    /\ handleGrant_body(grant)
    /\ controller' = [controller EXCEPT !.current_voice_freq_ = grant.frequency,
                                        !.voice_active_ = TRUE]
    /\ UNCHANGED <<enabled_talkgroups_, talkgroup_priorities_, now, last_status,
                   audioVars, readerVars, syncVars, p25Vars, sdr, tetra, dmr_trunk, system_infos,
                   burst_log, frameVars>>

handleCallGrant(grant) == handleGrant(grant)

\* one iteration of the status loop: sleep, then print the status every 10 s
MainLoop ==
    /\ \E d \in LoopSteps :
        /\ d >= SLEEP_MS
        /\ now + d <= MaxRunTime
        /\ now' = now + d
    /\ last_status' = IF now' - last_status >= STATUS_PERIOD_MS THEN now' ELSE last_status
    /\ UNCHANGED <<cmVars, audioVars, readerVars, p25Vars, rxVars>>

(***************************************************************************)
(* Specifications                                                          *)
(***************************************************************************)
\* The call tracker driven through its whole interface (it never looks into the samples)
Next ==
    \/ \E g \in GrantInputs : handleGrant(g)
    \/ \E tg \in Talkgroups : handleAudioFrame(tg, VoicePCM)
    \/ \E tg \in Talkgroups : endCall(tg)
    \/ \E tg \in Talkgroups : enableTalkgroup(tg, DEFAULT_PRIORITY)
    \/ \E tg \in Talkgroups : disableTalkgroup(tg)
    \/ cleanupInactiveCalls
    \/ ClockAdvance

Spec == Init /\ [][Next]_vars

\* The audio router: the producer (handleAudioFrame -> queueAudio) against the playback thread
NextAudio ==
    \/ \E g \in GrantInputs : handleGrant(g)
    \/ \E tg \in Talkgroups, pcm \in PCMInputs : handleAudioFrame(tg, pcm)
    \/ processQueue_Empty
    \/ processQueue_Pop
    \/ playAudio

SpecAudio == Init /\ [][NextAudio]_vars

\* The program as main() runs it: grants from the decoder, the status loop, the playback thread
NextRun ==
    \/ \E g \in GrantInputs : handleCallGrant(g)
    \/ MainLoop
    \/ processQueue_Empty

SpecRun == Init /\ [][NextRun]_vars /\ WF_vars(MainLoop)

\* A caller of getActiveCall next to the operations that erase entries
NextReader ==
    \/ \E g \in GrantInputs : handleGrant(g)
    \/ \E tg \in Talkgroups : endCall(tg)
    \/ cleanupInactiveCalls
    \/ ClockAdvance
    \/ \E tg \in Talkgroups : getActiveCall(tg)
    \/ derefActiveCall
    \/ releaseActiveCall

SpecReader == Init /\ [][NextReader]_vars

(***************************************************************************)
(* P25Decoder: trunking signalling blocks                                  *)
(***************************************************************************)
TSBK_BITS == 144
IDENTIFIER_UNIT_HZ == 5000
OP_GROUP_VOICE_GRANT == 0
OP_GROUP_VOICE_UPDATE == 2
OP_IDENTIFIER_UPDATE == 60
OP_NETWORK_STATUS_BROADCAST == 58

Min(a, b) == IF a < b THEN a ELSE b

\* bits is the array the code indexes from 0; start is the code's (0-based) index.
\* At most 32 bits are shifted in, so the uint32_t result never wraps.
RECURSIVE bitsToUint32(_, _, _)
bitsToUint32(bits, start, count) ==
    LET n == Min(count, 32) IN
    IF n = 0 THEN 0
    ELSE bitsToUint32(bits, start, n - 1) * 2 + (bits[start + n] % 2)

\* the flag taken from bit 7 of the options
EncryptedFlag_Bit7(options) == (options \div 128) % 2 = 1

\* (options & 0x40) != 0
EncryptedFlag(options) == (options \div 64) % 2 = 1

\* freq_id & 0xFF, the key looked up in frequency_table_
GrantFreqKey(data) == bitsToUint32(data, 22, 12) % 256

\* processGroupVoiceGrant without the test that the lookup gave a frequency
processGroupVoiceGrant_NoLookupTest(data) ==
    LET options == bitsToUint32(data, 6, 8)
        talkgroup == bitsToUint32(data, 34, 16) % 65536
        source == bitsToUint32(data, 50, 24)
        key == GrantFreqKey(data)
        frequency == IF key \in DOMAIN frequency_table_ THEN frequency_table_[key] ELSE 0
    IN  <<[talkgroup |-> talkgroup, radio_id |-> source, frequency |-> frequency,
           encrypted |-> EncryptedFlag(options)]>>

\* the grants processGroupVoiceGrant hands to grant_callback_
processGroupVoiceGrant(data) ==
    LET options == bitsToUint32(data, 6, 8)
        talkgroup == bitsToUint32(data, 34, 16) % 65536
        source == bitsToUint32(data, 50, 24)
        key == GrantFreqKey(data)
        frequency == IF key \in DOMAIN frequency_table_ THEN frequency_table_[key] ELSE 0
    IN  IF frequency > 0
        THEN <<[talkgroup |-> talkgroup, radio_id |-> source, frequency |-> frequency,
                encrypted |-> EncryptedFlag(options)]>>
        ELSE <<>>

\* the frequency table after processIdentifierUpdate
processIdentifierUpdate(data) ==
    LET identifier == bitsToUint32(data, 6, 4) % 256
        base_freq == bitsToUint32(data, 10, 32)
    IN  MapPut(frequency_table_, identifier, base_freq * (IDENTIFIER_UNIT_HZ \div FreqUnitHz))

\* the body of processTSBK: what it does to the frequency table and the grant callback
processTSBK_body(bits) ==
    LET opcode == bitsToUint32(bits, 0, 6) % 256
        emitted == IF opcode \in {OP_GROUP_VOICE_GRANT, OP_GROUP_VOICE_UPDATE}
                   THEN processGroupVoiceGrant(bits) ELSE <<>>
    IN
    /\ grants' = grants \o emitted
    /\ frequency_table_' = IF opcode = OP_IDENTIFIER_UPDATE
                           THEN processIdentifierUpdate(bits) ELSE frequency_table_
    /\ tsbk_log' = Append(tsbk_log, [bits |-> bits, emitted |-> Len(emitted)])

processTSBK(bits) ==
    /\ Len(tsbk_log) < MaxTSBKs
    /\ processTSBK_body(bits)
    /\ UNCHANGED <<cmVars, now, last_status, audioVars, readerVars, rxVars>>

(***************************************************************************)
(* TSBKs fed to the decoder                                                *)
(***************************************************************************)
RECURSIVE ShiftRight(_, _)
ShiftRight(value, n) == IF n = 0 THEN value ELSE ShiftRight(value \div 2, n - 1)

\* the field of the given width holding value, most significant bit first
ToBits(value, width) == [k \in 1..width |-> ShiftRight(value, width - k) % 2]
Pad(bits) == bits \o [k \in 1..(TSBK_BITS - Len(bits)) |-> 0]

\* opcode 6 | id 4 | base frequency multiplier 32 | spacing 10 | offset 10
IdentifierUpdateTSBK(id, base_mult, spacing, offset) ==
    Pad(ToBits(OP_IDENTIFIER_UPDATE, 6) \o ToBits(id, 4) \o ToBits(base_mult, 32)
        \o ToBits(spacing, 10) \o ToBits(offset, 10))

\* opcode 6 | options 8 | channel identifier 4 | channel number 12 | talkgroup 16 | source 24
GrantTSBK(opcode, options, channel_id, channel, talkgroup, source) ==
    Pad(ToBits(opcode, 6) \o ToBits(options, 8) \o ToBits(channel_id, 4) \o ToBits(channel, 12)
        \o ToBits(talkgroup, 16) \o ToBits(source, 24))

\* opcode 6 | options 8 | service 8 | frequency 12 | group 16 | source 24
GrantTSBK_AsRead(opcode, options, service, freq_id, talkgroup, source) ==
    Pad(ToBits(opcode, 6) \o ToBits(options, 8) \o ToBits(service, 8) \o ToBits(freq_id, 12)
        \o ToBits(talkgroup, 16) \o ToBits(source, 24))

TSBKInputs ==
    { IdentifierUpdateTSBK(1, 170000000, 100, 0),
      IdentifierUpdateTSBK(5, 170000000, 100, 0),
      IdentifierUpdateTSBK(1, 0, 100, 0),
      GrantTSBK(OP_GROUP_VOICE_GRANT, 0, 1, 5, 1234, 5678),
      GrantTSBK(OP_GROUP_VOICE_GRANT, 64, 1, 5, 1234, 5678),
      GrantTSBK(OP_GROUP_VOICE_GRANT, 0, 5, 5, 1234, 5678),
      GrantTSBK(OP_GROUP_VOICE_GRANT, 0, 5, 16, 4097, 5678),
      GrantTSBK(OP_GROUP_VOICE_UPDATE, 0, 1, 5, 1234, 5678),
      GrantTSBK_AsRead(OP_GROUP_VOICE_GRANT, 0, 0, 1, 1234, 5678),
      GrantTSBK_AsRead(OP_GROUP_VOICE_GRANT, 64, 0, 1, 1234, 5678),
      GrantTSBK_AsRead(OP_GROUP_VOICE_UPDATE, 0, 0, 5, 1234, 5678),
      GrantTSBK_AsRead(OP_GROUP_VOICE_GRANT, 0, 0, 257, 1234, 5678),
      GrantTSBK_AsRead(OP_GROUP_VOICE_GRANT, 0, 0, 2, 1234, 5678),
      Pad(ToBits(OP_NETWORK_STATUS_BROADCAST, 6)) }

NextP25 == \E t \in TSBKInputs : processTSBK(t)

SpecP25 == Init /\ [][NextP25]_vars

(***************************************************************************)
(* P25Decoder::reset() between TSBKs                                       *)
(***************************************************************************)
\* the entry of tsbk_log that records a reset()
ResetMark == [bits |-> <<>>, emitted |-> 0]

\* reset(): sync_locked_, bit_buffer_, frame_buffer_, sync_errors_, frames_decoded_ and
\* errors_corrected_ are cleared; nothing else is written
P25Decoder_reset ==
    /\ Len(tsbk_log) < MaxTSBKs
    /\ p25' = [p25 EXCEPT !.sync_locked_ = FALSE, !.bit_head = @ + p25.bit_size,
                          !.bit_size = 0, !.sync_errors_ = 0, !.frames_decoded_ = 0]
    /\ tsbk_log' = Append(tsbk_log, ResetMark)
    /\ UNCHANGED <<cmVars, now, last_status, audioVars, readerVars, syncVars, trunkVars, frequency_table_, grants,
                   sdr, tetra, stream, fed, call_left, smartnet, dmr, tetra_phy, frame_log>>

\* identifier 5 announced, and grants naming identifier 5 both in the layout
\* channel identifier 4 | channel number 12 and in the bits the decoder looks up
ResetTSBKInputs ==
    { IdentifierUpdateTSBK(5, 170000000, 100, 0),
      GrantTSBK(OP_GROUP_VOICE_GRANT, 0, 5, 16, 20481, 5678),
      GrantTSBK_AsRead(OP_GROUP_VOICE_UPDATE, 0, 0, 5, 1234, 5678),
      Pad(ToBits(OP_NETWORK_STATUS_BROADCAST, 6)) }

NextP25Reset ==
    \/ \E t \in ResetTSBKInputs : processTSBK(t)
    \/ P25Decoder_reset

SpecP25Reset == Init /\ [][NextP25Reset]_vars

(***************************************************************************)
(* RTLSDRSource: start(), stop() and the reader thread                     *)
(* start() and stop() are called by the controlling thread, one after the  *)
(* other; the reader thread runs beside them.  The device's async state is *)
(* librtlsdr's: rtlsdr_read_async sets it to RUNNING on entry and returns  *)
(* once it is CANCELING; rtlsdr_cancel_async turns RUNNING into CANCELING  *)
(* and does nothing when no read is running.                               *)
(***************************************************************************)
RTLSDRSource_start ==
    /\ sdr.stop_pc = "idle"
    /\ ~sdr.running_
    /\ sdr.starts < MaxStarts
    /\ sdr' = [sdr EXCEPT !.running_ = TRUE, !.reader_thread_ = "started",
                          !.starts = @ + 1]
    /\ UNCHANGED <<cmVars, now, last_status, audioVars, readerVars, syncVars, trunkVars, p25Vars, tetra, frameVars>>

\* stop(): running_ = false
RTLSDRSource_stop_Begin ==
    /\ sdr.stop_pc = "idle"
    /\ sdr.running_
    /\ sdr' = [sdr EXCEPT !.running_ = FALSE, !.stop_pc = "cancel"]
    /\ UNCHANGED <<cmVars, now, last_status, audioVars, readerVars, syncVars, trunkVars, p25Vars, tetra, frameVars>>

\* stop(): rtlsdr_cancel_async(device_)
rtlsdr_cancel_async ==
    /\ sdr.stop_pc = "cancel"
    /\ sdr' = [sdr EXCEPT !.async_status = IF @ = "RUNNING" THEN "CANCELING" ELSE @,
                          !.stop_pc = "join"]
    /\ UNCHANGED <<cmVars, now, last_status, audioVars, readerVars, syncVars, trunkVars, p25Vars, tetra, frameVars>>

\* stop(): reader_thread_.join() returns once the thread has finished
RTLSDRSource_stop_Join ==
    /\ sdr.stop_pc = "join"
    /\ sdr.reader_thread_ = "finished"
    /\ sdr' = [sdr EXCEPT !.reader_thread_ = "none", !.stop_pc = "idle"]
    /\ UNCHANGED <<cmVars, now, last_status, audioVars, readerVars, syncVars, trunkVars, p25Vars, tetra, frameVars>>

\* readerThread(): enters rtlsdr_read_async
readerThread_Enter ==
    /\ sdr.reader_thread_ = "started"
    /\ sdr' = [sdr EXCEPT !.reader_thread_ = "reading", !.async_status = "RUNNING"]
    /\ UNCHANGED <<cmVars, now, last_status, audioVars, readerVars, syncVars, trunkVars, p25Vars, tetra, frameVars>>

\* rtlsdr_read_async delivers a buffer to rtlsdrCallback
rtlsdrCallback ==
    /\ sdr.reader_thread_ = "reading"
    /\ sdr.async_status = "RUNNING"
    /\ sdr.buffers < MaxBuffers
    /\ sdr' = [sdr EXCEPT !.buffers = @ + 1]
    /\ UNCHANGED <<cmVars, now, last_status, audioVars, readerVars, syncVars, trunkVars, p25Vars, tetra, frameVars>>

\* rtlsdr_read_async returns after a cancel, and readerThread() ends
readerThread_Return ==
    /\ sdr.reader_thread_ = "reading"
    /\ sdr.async_status = "CANCELING"
    /\ sdr' = [sdr EXCEPT !.reader_thread_ = "finished", !.async_status = "INACTIVE"]
    /\ UNCHANGED <<cmVars, now, last_status, audioVars, readerVars, syncVars, trunkVars, p25Vars, tetra, frameVars>>

NextSdr ==
    \/ RTLSDRSource_start
    \/ RTLSDRSource_stop_Begin
    \/ rtlsdr_cancel_async
    \/ RTLSDRSource_stop_Join
    \/ readerThread_Enter
    \/ rtlsdrCallback
    \/ readerThread_Return

SpecSdr == Init /\ [][NextSdr]_vars

(***************************************************************************)
(* TrunkController: start, stop and tuning, around the grant handler.      *)
(* control_sdr_ is the RTLSDRSource above; setFrequency stores the         *)
(* frequency in its current_frequency_.  stop() returns when the SDR's     *)
(* stop() has joined the reader thread, which the steps above model.       *)
(***************************************************************************)
\* config_.system.control_channels
ControlChannels == <<Hz(851012500), Hz(851037500)>>
VoiceChannels == { g.frequency : g \in GrantInputs }

TrunkController_tuneToControlChannel(freq) ==
    /\ controller' = [controller EXCEPT !.current_frequency_ = freq,
                                        !.current_control_freq_ = freq]
    /\ UNCHANGED <<cmVars, now, last_status, audioVars, readerVars, syncVars, p25Vars, sdr, tetra,
                   dmr_trunk, system_infos, burst_log, frameVars>>

TrunkController_tuneToVoiceChannel(freq) ==
    /\ controller' = [controller EXCEPT !.current_voice_freq_ = freq,
                                        !.voice_active_ = TRUE]
    /\ UNCHANGED <<cmVars, now, last_status, audioVars, readerVars, syncVars, p25Vars, sdr, tetra,
                   dmr_trunk, system_infos, burst_log, frameVars>>

\* start(): tune to the first control channel, start the SDR, running_ = true
TrunkController_start ==
    /\ ~controller.running_
    /\ sdr.stop_pc = "idle"
    /\ ~sdr.running_
    /\ sdr.starts < MaxStarts
    /\ sdr' = [sdr EXCEPT !.running_ = TRUE, !.reader_thread_ = "started",
                          !.starts = @ + 1]
    /\ controller' = [controller EXCEPT !.current_frequency_ = ControlChannels[1],
                                        !.current_control_freq_ = ControlChannels[1],
                                        !.running_ = TRUE]
    /\ UNCHANGED <<cmVars, now, last_status, audioVars, readerVars, syncVars, p25Vars, tetra,
                   dmr_trunk, system_infos, burst_log, frameVars>>

\* stop(): running_ = false, then control_sdr_->stop() begins
TrunkController_stop ==
    /\ controller.running_
    /\ sdr.stop_pc = "idle"
    /\ sdr.running_
    /\ controller' = [controller EXCEPT !.running_ = FALSE]
    /\ sdr' = [sdr EXCEPT !.running_ = FALSE, !.stop_pc = "cancel"]
    /\ UNCHANGED <<cmVars, now, last_status, audioVars, readerVars, syncVars, p25Vars, tetra,
                   dmr_trunk, system_infos, burst_log, frameVars>>

NextController ==
    \/ TrunkController_start
    \/ TrunkController_stop
    \/ rtlsdr_cancel_async
    \/ RTLSDRSource_stop_Join
    \/ readerThread_Enter
    \/ readerThread_Return
    \/ \E i \in DOMAIN ControlChannels : TrunkController_tuneToControlChannel(ControlChannels[i])
    \/ \E freq \in VoiceChannels : TrunkController_tuneToVoiceChannel(freq)
    \/ \E g \in GrantInputs : handleCallGrant(g)

SpecController == Init /\ [][NextController]_vars

(***************************************************************************)
(* TETRADecoder: call set-up and release on the main control channel.      *)
(* grant_callback_ is wired to TrunkController::handleCallGrant as for the *)
(* other decoders, so a grant reaches CallManager::handleGrant inside the  *)
(* decoder's step.                                                         *)
(***************************************************************************)
TETRA_MAC_BROADCAST == 1
TETRA_MAC_D_SETUP == 2
TETRA_MAC_D_RELEASE == 4
TETRA_MAC_D_SDS == 5
TETRA_CHANNEL_SPACING == 25000
TETRA_BASE_FREQ == 380000000

\* data is the byte array the code indexes from 0; bit start + i is bit 7 - (start + i) % 8
\* of byte (start + i) / 8
RECURSIVE extractBits(_, _, _)
extractBits(data, start, count) ==
    LET n == Min(count, 32) IN
    IF n = 0 THEN 0
    ELSE LET bit_idx == start + n - 1 IN
         extractBits(data, start, n - 1) * 2
            + (ShiftRight(data[(bit_idx \div 8) + 1], 7 - (bit_idx % 8)) % 2)

identifyPDU(data) ==
    LET pdu_id == extractBits(data, 0, 8) % 256 IN
    IF Len(data) < 8 THEN "UNKNOWN"
    ELSE IF pdu_id = TETRA_MAC_BROADCAST THEN "SYSTEM_INFO"
    ELSE IF pdu_id = TETRA_MAC_D_SETUP THEN "CALL_GRANT"
    ELSE IF pdu_id = TETRA_MAC_D_RELEASE THEN "CALL_RELEASE"
    ELSE IF pdu_id = TETRA_MAC_D_SDS THEN "SHORT_DATA"
    ELSE "UNKNOWN"

\* detectEncryption(data + 9) != EncryptionType::NONE
TetraEncrypted(data) == (extractBits(data, 72, 2) % 256) # 0

parseCallGrant(data) ==
    IF Len(data) < 80
    THEN UNCHANGED <<tetra, grants, active_calls_, total_calls_>>
    ELSE
    LET talkgroup == extractBits(data, 12, 24)
        radio_id == extractBits(data, 36, 24)
        freq_index == extractBits(data, 60, 12)
        grant == [talkgroup |-> talkgroup, radio_id |-> radio_id,
                  frequency |-> Hz(TETRA_BASE_FREQ)
                                    + freq_index * (TETRA_CHANNEL_SPACING \div FreqUnitHz),
                  encrypted |-> TetraEncrypted(data)]
    IN
    /\ tetra.calls_decoded_ < MaxTetraCalls
    /\ tetra' = [active_calls_ |-> MapPut(tetra.active_calls_, tetra.calls_decoded_,
                                          [talkgroup |-> talkgroup, radio_id |-> radio_id]),
                 calls_decoded_ |-> tetra.calls_decoded_ + 1]
    /\ grants' = Append(grants, grant)
    /\ handleGrant_body(grant)

parseCallRelease(data) ==
    LET call_id == extractBits(data, 8, 24) IN
    /\ tetra' = IF Len(data) >= 32
                THEN [tetra EXCEPT !.active_calls_ = MapErase(@, {call_id})]
                ELSE tetra
    /\ UNCHANGED <<grants, active_calls_, total_calls_>>

\* the PDU handlers processMCCH switches to; SYSTEM_INFO and SHORT_DATA only log
processMCCH_PDU(data) ==
    CASE identifyPDU(data) = "CALL_GRANT" -> parseCallGrant(data)
      [] identifyPDU(data) = "CALL_RELEASE" -> parseCallRelease(data)
      [] OTHER -> UNCHANGED <<tetra, grants, active_calls_, total_calls_>>

processMCCH(data) ==
    /\ Len(data) >= 16
    /\ processMCCH_PDU(data)
    /\ UNCHANGED <<enabled_talkgroups_, talkgroup_priorities_, now, last_status, audioVars,
                   readerVars, syncVars, trunkVars, frequency_table_, tsbk_log, sdr, frameVars>>

(***************************************************************************)
(* PDUs fed to the TETRA decoder                                           *)
(***************************************************************************)
\* eight bits, most significant first, as one byte
RECURSIVE BitsValue(_)
BitsValue(bits) ==
    IF bits = <<>> THEN 0 ELSE BitsValue(SubSeq(bits, 1, Len(bits) - 1)) * 2 + bits[Len(bits)]
PackBytes(bits, length) ==
    [k \in 1..length |->
        IF 8 * k <= Len(bits) THEN BitsValue(SubSeq(bits, 8 * k - 7, 8 * k))
        ELSE IF 8 * (k - 1) < Len(bits)
        THEN BitsValue(SubSeq(bits, 8 * k - 7, Len(bits))
                       \o [j \in 1..(8 * k - Len(bits)) |-> 0])
        ELSE 0]

\* PDU type 8 | call type 4 | destination 24 | source 24 | channel 12 | encryption 2
SetupPDU(call_type, talkgroup, radio_id, channel, encryption) ==
    PackBytes(ToBits(TETRA_MAC_D_SETUP, 8) \o ToBits(call_type, 4) \o ToBits(talkgroup, 24)
              \o ToBits(radio_id, 24) \o ToBits(channel, 12) \o ToBits(encryption, 2), 80)
\* PDU type 8 | call identifier 24
ReleasePDU(call_id) ==
    PackBytes(ToBits(TETRA_MAC_D_RELEASE, 8) \o ToBits(call_id, 24), 32)
ShortDataPDU == PackBytes(ToBits(TETRA_MAC_D_SDS, 8), 32)

SetupInputs == { SetupPDU(0, tg, 5678, 400, 0) : tg \in Talkgroups }
ReleaseInputs == { ReleasePDU(id) : id \in 0..(MaxTetraCalls - 1) }
PDUInputs == SetupInputs \cup ReleaseInputs \cup {ShortDataPDU}

NextTetra ==
    \/ \E data \in PDUInputs : processMCCH(data)
    \/ \E tg \in Talkgroups : disableTalkgroup(tg)

SpecTetra == Init /\ [][NextTetra]_vars

(***************************************************************************)
(* Symbol streams                                                          *)
(* A stream is the signal on the tuned channel: the bits it carries, and   *)
(* the symbols the demodulator hands to processSymbols for them.           *)
(***************************************************************************)
\* the bits of a hexadecimal word, most significant first
HexBits(digits) == [k \in 1..(4 * Len(digits)) |-> ToBits(digits[((k - 1) \div 4) + 1], 4)[((k - 1) % 4) + 1]]
Hamming(a, b) == Cardinality({k \in 1..Len(a) : a[k] # b[k]})

P25_FRAME_SYNC_1 == HexBits(<<5, 5, 7, 5, 15, 5, 15, 15, 7, 7, 15, 15>>)
P25_FRAME_BITS == 1728
P25_BUFFER_BITS == 10000
P25_SYNC_THRESHOLD == 3
P25_SYNC_TOLERANCE == 4
TRUNKING_SIGNALING_BLOCK == 7
SMARTNET_SYNC == 21845
SMARTNET_FRAME_BITS == 76
SMARTNET_BUFFER_BITS == 5000
SMARTNET_SYNC_THRESHOLD == 5
SMARTNET_SYNC_TOLERANCE == 2
SMARTNET_BASE_FREQ == 851000000
SMARTNET_CHANNEL_SPACING == 25000
DMR_FRAME_BITS == 264
DMR_SYNC_PATTERN_BITS == 48
DMR_BUFFER_FRAMES == 4
DMR_SYNC_TOLERANCE == 4
DMR_SYNC_BS_SOURCED == HexBits(<<7, 5, 5, 15, 13, 7, 13, 15, 7, 5, 15, 7>>)
DMR_SYNC_MS_SOURCED == HexBits(<<13, 15, 15, 5, 7, 13, 7, 5, 13, 15, 5, 13>>)
DMR_SYNC_DATA == HexBits(<<13, 5, 13, 7, 15, 7, 7, 15, 13, 7, 5, 7>>)
DMR_SYNC_VOICE == HexBits(<<7, 15, 7, 13, 5, 13, 13, 5, 7, 13, 15, 13>>)
TETRA_SLOTS_PER_FRAME == 4
TETRA_BITS_PER_SLOT == 510
TETRA_FRAME_BITS == 2040
TETRA_FRAMES_PER_MULTIFRAME == 18
TETRA_TRAINING_BITS == 11
TETRA_SEARCH_BITS == 64
TETRA_TRAINING_SEQ_NORMAL == 253
TETRA_TRAINING_SEQ_EXTENDED == 1764
TETRA_TRAINING_SEQ_SYNC == 938
TETRA_SYNC_ERRORS_ALLOWED == 3
TETRA_MAX_FRAMES_WITHOUT_SYNC == 10

\* the TSBK in frame j (0, 1, ...) of a P25 stream: an identifier update, then grants
StreamTSBK(s, j) ==
    IF j = 0 THEN IdentifierUpdateTSBK(1, 170000000, 100, 0)
    ELSE GrantTSBK_AsRead(OP_GROUP_VOICE_GRANT, 0, 0, 1, 1234, 5678)

\* P25 frame: sync 48 | NID 64 (NAC 12, ..., DUID 4) | TSBK 144 at bit 112 | rest.
\* The stream carries s.frames frames back to back from bit s.sync_at on, the first
\* s.errors bits of the first sync inverted; every other bit is 0.
P25StreamBit(s, i) ==
    IF i < s.sync_at \/ i >= s.sync_at + s.frames * P25_FRAME_BITS THEN 0
    ELSE LET q == (i - s.sync_at) % P25_FRAME_BITS
             j == (i - s.sync_at) \div P25_FRAME_BITS
         IN  IF q < 48 THEN (IF j = 0 /\ q < s.errors
                             THEN 1 - P25_FRAME_SYNC_1[q + 1] ELSE P25_FRAME_SYNC_1[q + 1])
             ELSE IF q < 60 THEN ToBits(s.nac, 12)[q - 47]
             ELSE IF q < 108 THEN 0
             ELSE IF q < 112 THEN ToBits(TRUNKING_SIGNALING_BLOCK, 4)[q - 107]
             ELSE IF q < 256 THEN StreamTSBK(s, j)[q - 111]
             ELSE 0

\* SmartNet OSW: sync 16 | address 10 | group 3 | command 11 | CRC 16 | status 20
SmartNetStreamBit(s, i) ==
    IF i < s.sync_at \/ i >= s.sync_at + s.frames * SMARTNET_FRAME_BITS THEN 0
    ELSE LET q == (i - s.sync_at) % SMARTNET_FRAME_BITS IN
         IF q < 16 THEN ToBits(SMARTNET_SYNC, 16)[q + 1]
         ELSE IF q < 26 THEN ToBits(s.address, 10)[q - 15]
         ELSE IF q < 29 THEN 0
         ELSE IF q < 40 THEN ToBits(s.command, 11)[q - 28]
         ELSE 0

\* DMR burst of 264 bits: the sync word (base-station sourced, its first s.errors bits
\* inverted) in the first 48 bits of every slot from s.sync_at on, zeros elsewhere
DMRStreamBit(s, i) ==
    IF i < s.sync_at THEN 0
    ELSE LET q == (i - s.sync_at) % DMR_FRAME_BITS IN
         IF q < DMR_SYNC_PATTERN_BITS
         THEN (IF q < s.errors THEN 1 - DMR_SYNC_BS_SOURCED[q + 1] ELSE DMR_SYNC_BS_SOURCED[q + 1])
         ELSE 0

\* TETRA slot of 510 bits: the normal training sequence in the first 11 bits of every
\* slot from s.sync_at on (none when s.training is FALSE, and none in the slots
\* s.lost_from .. s.lost_to - 1, where the signal fades), zeros elsewhere; the bits
\* s.flips of every training sequence are received wrong
TetraStreamBit(s, i) ==
    IF ~s.training \/ i < s.sync_at THEN 0
    ELSE LET q == (i - s.sync_at) % TETRA_BITS_PER_SLOT
             slot == (i - s.sync_at) \div TETRA_BITS_PER_SLOT IN
         IF q < TETRA_TRAINING_BITS /\ ~(s.lost_from <= slot /\ slot < s.lost_to)
         THEN (ToBits(TETRA_TRAINING_SEQ_NORMAL, TETRA_TRAINING_BITS)[q + 1]
               + (IF q \in s.flips THEN 1 ELSE 0)) % 2
         ELSE 0

\* the symbol the demodulator delivers at index k: a C4FM dibit (0..3) for P25, an FSK2
\* level (0 or 1) for SmartNet, a 4FSK dibit (0..3) for DMR, a DQPSK symbol (0..3) whose
\* upper bit carries the stream bit for TETRA
SymbolAt(s, k) ==
    CASE s.proto = "P25" -> 2 * P25StreamBit(s, 2 * k) + P25StreamBit(s, 2 * k + 1)
      [] s.proto = "SmartNet" -> SmartNetStreamBit(s, k)
      [] s.proto = "DMR" -> 2 * DMRStreamBit(s, 2 * k) + DMRStreamBit(s, 2 * k + 1)
      [] s.proto = "TETRA" -> 2 * TetraStreamBit(s, k) + (k % 2)

\* bit i of everything pushed into bit_buffer_ so far, as processSymbols derives it from
\* the symbols: P25 bit1 = (symbol >> 1) & 1, bit2 = symbol & 1; SmartNet symbol > 0.5;
\* DMR bit0 = (sym >> 1) & 1, bit1 = sym & 1; TETRA symbol >= 2.0
PushedBit(s, i) ==
    CASE s.proto \in {"P25", "DMR"} ->
            (IF i % 2 = 0 THEN (SymbolAt(s, i \div 2) \div 2) % 2 ELSE SymbolAt(s, i \div 2) % 2)
      [] s.proto = "SmartNet" -> (IF SymbolAt(s, i) > 0 THEN 1 ELSE 0)
      [] s.proto = "TETRA" -> (IF SymbolAt(s, i) >= 2 THEN 1 ELSE 0)

\* bit_buffer_[start .. start + count - 1] for a buffer whose first bit is stream bit head
BufferBits(s, head, start, count) == [k \in 1..count |-> PushedBit(s, head + start + k - 1)]

P25Streams ==
    { [proto |-> "P25", name |-> "aligned", sync_at |-> 0, errors |-> 0, frames |-> 3,
       nac |-> 659, expected_nac |-> 0, length |-> 3 * 864 + MaxTail],
      [proto |-> "P25", name |-> "four errors", sync_at |-> 0, errors |-> 4, frames |-> 1,
       nac |-> 659, expected_nac |-> 659, length |-> 864 + MaxTail],
      [proto |-> "P25", name |-> "five errors", sync_at |-> 0, errors |-> 5, frames |-> 1,
       nac |-> 659, expected_nac |-> 0, length |-> 48 + MaxTail],
      [proto |-> "P25", name |-> "offset", sync_at |-> 2, errors |-> 0, frames |-> 1,
       nac |-> 659, expected_nac |-> 0, length |-> 48 + MaxTail],
      [proto |-> "P25", name |-> "late", sync_at |-> 2, errors |-> 0, frames |-> 3,
       nac |-> 659, expected_nac |-> 0, length |-> 5001 + MaxTail],
      [proto |-> "P25", name |-> "loss", sync_at |-> 0, errors |-> 0, frames |-> 1,
       nac |-> 659, expected_nac |-> 659, length |-> 3 * 864 + MaxTail] }

SmartNetStreams ==
    { [proto |-> "SmartNet", name |-> "aligned", sync_at |-> 0, frames |-> 3,
       address |-> 101, command |-> 5, length |-> 3 * 76 + MaxTail],
      [proto |-> "SmartNet", name |-> "loss", sync_at |-> 0, frames |-> 1,
       address |-> 101, command |-> 5, length |-> 3 * 76 + MaxTail] }

\* numbers of symbols the demodulator hands over in one processSymbols call
ChunkSizes == {1, 3}

\* DMR and TETRA streams come with the number of symbols of every processSymbols call
DMRStreams ==
    { [proto |-> "DMR", name |-> "aligned", sync_at |-> 0, errors |-> 0, count |-> 1,
       length |-> 24 + 3 * DMR_FRAME_BITS + MaxTail],
      [proto |-> "DMR", name |-> "slot per call", sync_at |-> 0, errors |-> 0, count |-> 132,
       length |-> 132 * (1 + 2 * DMR_FRAME_BITS + MaxTail)],
      [proto |-> "DMR", name |-> "four errors", sync_at |-> 0, errors |-> 4, count |-> 1,
       length |-> 24 + MaxTail],
      [proto |-> "DMR", name |-> "five errors", sync_at |-> 0, errors |-> 5, count |-> 1,
       length |-> 24 + MaxTail] }

TetraStreams ==
    { [proto |-> "TETRA", name |-> "aligned", training |-> TRUE, sync_at |-> 0, count |-> 1,
       lost_from |-> 0, lost_to |-> 0, flips |-> {},
       length |-> 64 + 5 * TETRA_BITS_PER_SLOT + MaxTail],
      [proto |-> "TETRA", name |-> "chunked", training |-> TRUE, sync_at |-> 0, count |-> 8,
       lost_from |-> 0, lost_to |-> 0, flips |-> {},
       length |-> 8 * (8 + 2 * TETRA_BITS_PER_SLOT + MaxTail)],
      [proto |-> "TETRA", name |-> "offset", training |-> TRUE, sync_at |-> 5, count |-> 1,
       lost_from |-> 0, lost_to |-> 0, flips |-> {},
       length |-> 64 + 11 * TETRA_BITS_PER_SLOT + MaxTail],
      [proto |-> "TETRA", name |-> "no training", training |-> FALSE, sync_at |-> 0,
       lost_from |-> 0, lost_to |-> 0, flips |-> {},
       count |-> 1, length |-> 64 + MaxTail],
      [proto |-> "TETRA", name |-> "fade", training |-> TRUE, sync_at |-> 0, count |-> 1,
       lost_from |-> 2, lost_to |-> 2 + TETRA_MAX_FRAMES_WITHOUT_SYNC + 1, flips |-> {},
       length |-> 64 + (2 + TETRA_MAX_FRAMES_WITHOUT_SYNC) * TETRA_BITS_PER_SLOT + MaxTail],
      [proto |-> "TETRA", name |-> "dip", training |-> TRUE, sync_at |-> 0, count |-> 1,
       lost_from |-> 2, lost_to |-> 4, flips |-> {},
       length |-> 64 + 6 * TETRA_BITS_PER_SLOT + MaxTail],
      [proto |-> "TETRA", name |-> "three errors", training |-> TRUE, sync_at |-> 0,
       count |-> 1, lost_from |-> 0, lost_to |-> 0, flips |-> {0, 3, 6},
       length |-> 64 + MaxTail],
      [proto |-> "TETRA", name |-> "four errors", training |-> TRUE, sync_at |-> 0,
       count |-> 1, lost_from |-> 0, lost_to |-> 0, flips |-> {0, 3, 6, 8},
       length |-> 64 + MaxTail] }

(***************************************************************************)
(* P25Decoder and SmartNetDecoder: framing                                 *)
(* processSymbols loops over its symbols; the whole effect of the call is  *)
(* in the loop body, which is one step here, and call_left says how many   *)
(* symbols of the running call are still to be looped over.                *)
(***************************************************************************)
\* TrunkController::initialize and start: decoder created and configured, channel tuned
tuneToControlChannel(s) ==
    /\ stream = NoStream
    /\ stream' = s
    /\ p25' = IF s.proto = "P25" THEN [P25Init EXCEPT !.expected_nac_ = s.expected_nac] ELSE p25
    /\ UNCHANGED <<cmVars, now, last_status, audioVars, readerVars, syncVars, trunkVars, p25Vars, sdr, tetra,
                   fed, call_left, smartnet, dmr, tetra_phy, frame_log>>

\* the symbol callback calls processSymbols(symbols, count)
processSymbols_Enter(count) ==
    /\ stream.proto \in {"P25", "SmartNet"}
    /\ call_left = 0
    /\ fed + count <= stream.length
    /\ call_left' = count
    /\ UNCHANGED <<cmVars, now, last_status, audioVars, readerVars, syncVars, trunkVars, p25Vars, sdr, tetra,
                   stream, fed, p25, smartnet, dmr, tetra_phy, frame_log>>

\* popcount(bitsToU64(bit_buffer, 0, 48) ^ P25_FRAME_SYNC_1) <= 4
detectFrameSync(head, size) ==
    /\ size >= 48
    /\ Hamming(BufferBits(stream, head, 0, 48), P25_FRAME_SYNC_1) <= P25_SYNC_TOLERANCE

extractNAC(nid_bits) == BitsValue(SubSeq(nid_bits, 1, 12)) % 4096
extractDUID(nid_bits) == BitsValue(SubSeq(nid_bits, 61, 64))
processNID(nid_bits) == p25.expected_nac_ = 0 \/ extractNAC(nid_bits) = p25.expected_nac_

\* bits taken from the front of bit_buffer_ after a frame attempt, always one
P25_Consumed_PopFront(nid_ok) == 1

\* bits taken from the front of bit_buffer_ after a frame attempt: the frame, or one bit
P25_Consumed(nid_ok) == IF nid_ok THEN P25_FRAME_BITS ELSE 1

\* one iteration of the loop of P25Decoder::processSymbols
P25_processSymbol ==
    /\ stream.proto = "P25"
    /\ call_left > 0
    /\ LET pushed == p25.bit_size + 2
           dropped == IF pushed > P25_BUFFER_BITS THEN pushed - P25_BUFFER_BITS ELSE 0
           head == p25.bit_head + dropped
           size == pushed - dropped
           found == /\ (~p25.sync_locked_ \/ p25.sync_errors_ > P25_SYNC_THRESHOLD)
                    /\ detectFrameSync(head, size)
           locked == p25.sync_locked_ \/ found
           errors == IF found THEN 0 ELSE p25.sync_errors_
           attempt == locked /\ size >= P25_FRAME_BITS
           nid_bits == BufferBits(stream, head, 48, 64)
           nid_ok == processNID(nid_bits)
       IN
       /\ p25' = IF ~attempt
                 THEN [p25 EXCEPT !.bit_head = head, !.bit_size = size,
                                  !.sync_locked_ = locked, !.sync_errors_ = errors]
                 ELSE [p25 EXCEPT !.bit_head = head + P25_Consumed(nid_ok),
                                  !.bit_size = size - P25_Consumed(nid_ok),
                                  !.sync_locked_ = locked,
                                  !.sync_errors_ = IF nid_ok THEN errors ELSE errors + 1,
                                  !.current_nac_ = extractNAC(nid_bits),
                                  !.frames_decoded_ = IF nid_ok THEN @ + 1 ELSE @]
       /\ frame_log' = IF attempt
                       THEN Append(frame_log, [offset |-> head, accepted |-> nid_ok, slot |-> 0])
                       ELSE frame_log
       /\ IF attempt /\ nid_ok /\ extractDUID(nid_bits) = TRUNKING_SIGNALING_BLOCK
          THEN processTSBK_body(BufferBits(stream, head, 112, TSBK_BITS))
          ELSE UNCHANGED p25Vars
    /\ fed' = fed + 1
    /\ call_left' = call_left - 1
    /\ UNCHANGED <<cmVars, now, last_status, audioVars, readerVars, syncVars, trunkVars, sdr, tetra,
                   stream, smartnet, dmr, tetra_phy>>

\* popcount(sync_word ^ SMARTNET_SYNC) <= 2 over bit_buffer[0..15]
detectSync(head, size) ==
    /\ size >= 16
    /\ Hamming(BufferBits(stream, head, 0, 16), ToBits(SMARTNET_SYNC, 16)) <= SMARTNET_SYNC_TOLERANCE

\* "Simplified CRC check": return true
checkCRC(frame_bits) == TRUE

\* decodeOSW that takes every command for a group call
decodeOSW_AnyCommand(address, group, command) ==
    <<[talkgroup |-> address, radio_id |-> 0,
       frequency |-> Hz(SMARTNET_BASE_FREQ)
                       + (command % 64) * (SMARTNET_CHANNEL_SPACING \div FreqUnitHz),
       encrypted |-> FALSE]>>

\* the grants decodeOSW hands to grant_callback_
decodeOSW(address, group, command) ==
    IF (command \div 64) % 32 = 0
    THEN <<[talkgroup |-> address, radio_id |-> 0,
            frequency |-> Hz(SMARTNET_BASE_FREQ)
                            + (command % 64) * (SMARTNET_CHANNEL_SPACING \div FreqUnitHz),
            encrypted |-> FALSE]>>
    ELSE <<>>

\* one iteration of the loop of SmartNetDecoder::processSymbols
SmartNet_processSymbol ==
    /\ stream.proto = "SmartNet"
    /\ call_left > 0
    /\ LET pushed == smartnet.bit_size + 1
           dropped == IF pushed > SMARTNET_BUFFER_BITS THEN pushed - SMARTNET_BUFFER_BITS ELSE 0
           head == smartnet.bit_head + dropped
           size == pushed - dropped
           found == /\ (~smartnet.sync_locked_ \/ smartnet.sync_errors_ > SMARTNET_SYNC_THRESHOLD)
                    /\ detectSync(head, size)
           locked == smartnet.sync_locked_ \/ found
           errors == IF found THEN 0 ELSE smartnet.sync_errors_
           attempt == locked /\ size >= SMARTNET_FRAME_BITS
           frame_bits == BufferBits(stream, head, 0, SMARTNET_FRAME_BITS)
           frame_ok == checkCRC(frame_bits)
           taken == IF frame_ok THEN SMARTNET_FRAME_BITS ELSE 1
       IN
       /\ smartnet' = IF ~attempt
                      THEN [smartnet EXCEPT !.bit_head = head, !.bit_size = size,
                                            !.sync_locked_ = locked, !.sync_errors_ = errors]
                      ELSE [smartnet EXCEPT !.bit_head = head + taken,
                                            !.bit_size = size - taken,
                                            !.sync_locked_ = locked,
                                            !.sync_errors_ = IF frame_ok THEN errors ELSE errors + 1,
                                            !.frames_decoded_ = IF frame_ok THEN @ + 1 ELSE @]
       /\ frame_log' = IF attempt
                       THEN Append(frame_log, [offset |-> head, accepted |-> frame_ok, slot |-> 0])
                       ELSE frame_log
       /\ grants' = IF attempt /\ frame_ok
                    THEN grants \o decodeOSW(BitsValue(SubSeq(frame_bits, 17, 26)),
                                             BitsValue(SubSeq(frame_bits, 27, 29)),
                                             BitsValue(SubSeq(frame_bits, 30, 40)))
                    ELSE grants
    /\ fed' = fed + 1
    /\ call_left' = call_left - 1
    /\ UNCHANGED <<cmVars, now, last_status, audioVars, readerVars, syncVars, trunkVars, frequency_table_, tsbk_log,
                   sdr, tetra, stream, p25, dmr, tetra_phy>>

\* BaseDecoder::isLocked() of the decoder the controller runs
isLocked == IF stream.proto = "P25" THEN p25.sync_locked_ ELSE smartnet.sync_locked_

NextSync ==
    \/ \E s \in P25Streams \cup SmartNetStreams : tuneToControlChannel(s)
    \/ \E count \in ChunkSizes : processSymbols_Enter(count)
    \/ P25_processSymbol
    \/ SmartNet_processSymbol

SpecSync == Init /\ [][NextSync]_vars

(***************************************************************************)
(* SmartNetDecoder: outbound signalling words                              *)
(* processFrame on one 76-bit frame; frame_log records the frames it was   *)
(* given and the number of grants each produced.                           *)
(***************************************************************************)
\* Sync(16) | Address(10) | Group(3) | Command(11) | CRC(16) | Status(20)
OSWFrame(address, group, command) ==
    ToBits(SMARTNET_SYNC, 16) \o ToBits(address, 10) \o ToBits(group, 3) \o ToBits(command, 11)
        \o [k \in 1..36 |-> 0]

\* commands: channel 10, channel 63, command types 1 (channels 0 and 10), 16 and 31
OSWInputs ==
    { OSWFrame(address, 0, command) :
        address \in {101, 1023}, command \in {10, 63, 64, 74, 1034, 2047} }

\* the grants processFrame hands to grant_callback_ through decodeOSW
processFrame(bits) ==
    IF ~checkCRC(bits) THEN <<>>
    ELSE decodeOSW(BitsValue(SubSeq(bits, 17, 26)), BitsValue(SubSeq(bits, 27, 29)),
                   BitsValue(SubSeq(bits, 30, 40)))

SmartNetDecoder_processFrame(bits) ==
    /\ Len(frame_log) < MaxOSWs
    /\ grants' = grants \o processFrame(bits)
    /\ frame_log' = Append(frame_log, [bits |-> bits, accepted |-> checkCRC(bits),
                                       emitted |-> Len(processFrame(bits))])
    /\ UNCHANGED <<cmVars, now, last_status, audioVars, readerVars, syncVars, trunkVars, frequency_table_, tsbk_log,
                   sdr, tetra, stream, fed, call_left, p25, smartnet, dmr, tetra_phy>>

NextOSW == \E bits \in OSWInputs : SmartNetDecoder_processFrame(bits)

SpecOSW == Init /\ [][NextOSW]_vars

(***************************************************************************)
(* DMRDecoder and TETRAPhysicalLayer: slot framing                         *)
(* processSymbols pushes all its symbols, trims the buffer and then looks  *)
(* for or follows the sync once, so a call is one step.  What processSlot  *)
(* decodes from the slot is left out; frame_log records the slot it was    *)
(* given, and an entry with accepted FALSE records a loss of sync.         *)
(***************************************************************************)
\* DMRDecoder::initialize() on the channel carrying stream s
DMRDecoder_initialize(s) ==
    /\ stream = NoStream
    /\ stream' = s
    /\ dmr' = DMRInit
    /\ UNCHANGED <<cmVars, now, last_status, audioVars, readerVars, syncVars, trunkVars, p25Vars, sdr, tetra,
                   fed, call_left, p25, smartnet, tetra_phy, frame_log>>

\* the least Hamming distance of bit_buffer_[0..47] to the four sync words is at most 4;
\* the loop that follows removes bits while bit_buffer_[0] differs from bit 47 of the
\* word just read from bit_buffer_[0..47], which is bit_buffer_[0]: it removes nothing
DMR_detectSync(head, size) ==
    /\ size >= DMR_SYNC_PATTERN_BITS
    /\ LET received_sync == BufferBits(stream, head, 0, DMR_SYNC_PATTERN_BITS) IN
       \E pattern \in {DMR_SYNC_BS_SOURCED, DMR_SYNC_MS_SOURCED, DMR_SYNC_DATA, DMR_SYNC_VOICE} :
           Hamming(received_sync, pattern) <= DMR_SYNC_TOLERANCE

\* one processSymbols call with count symbols on the decoder d: its state afterwards
\* and what it adds to the log of slots
DMR_call(d, count) ==
    LET pushed == 2 * count
        limit == DMR_FRAME_BITS * DMR_BUFFER_FRAMES
        trimmed == IF d.bit_size + pushed > limit THEN d.bit_size + pushed - limit ELSE 0
        head == d.bit_head + trimmed
        size == d.bit_size + pushed - trimmed
        elapsed == d.bits_since_sync_ + 1
        slot == size >= DMR_FRAME_BITS
        head2 == IF slot THEN head + DMR_FRAME_BITS ELSE head
        size2 == IF slot THEN size - DMR_FRAME_BITS ELSE size
        slot2 == IF slot THEN 1 - d.current_slot_ ELSE d.current_slot_
        processed == IF slot
                     THEN <<[offset |-> head, accepted |-> TRUE, slot |-> d.current_slot_]>>
                     ELSE <<>>
    IN
    IF ~d.sync_locked_
    THEN [dmr |-> [d EXCEPT !.bit_head = head, !.bit_size = size,
                            !.sync_locked_ = DMR_detectSync(head, size)],
          log |-> <<>>]
    ELSE IF elapsed < DMR_FRAME_BITS
    THEN [dmr |-> [d EXCEPT !.bit_head = head, !.bit_size = size,
                            !.bits_since_sync_ = elapsed],
          log |-> <<>>]
    ELSE LET still == DMR_detectSync(head2, size2) IN
         [dmr |-> [d EXCEPT !.bit_head = head2, !.bit_size = size2,
                            !.bits_since_sync_ = 0, !.current_slot_ = slot2,
                            !.sync_locked_ = still],
          log |-> processed \o
                  (IF still THEN <<>>
                   ELSE <<[offset |-> head2, accepted |-> FALSE, slot |-> slot2]>>)]

DMR_processSymbols ==
    /\ stream.proto = "DMR"
    /\ fed + stream.count <= stream.length
    /\ fed' = fed + stream.count
    /\ dmr' = DMR_call(dmr, stream.count).dmr
    /\ frame_log' = frame_log \o DMR_call(dmr, stream.count).log
    /\ UNCHANGED <<cmVars, now, last_status, audioVars, readerVars, syncVars, trunkVars, p25Vars, sdr, tetra,
                   stream, call_left, p25, smartnet, tetra_phy>>

\* TETRAPhysicalLayer::initialize() on the channel carrying stream s
TETRAPhysicalLayer_initialize(s) ==
    /\ stream = NoStream
    /\ stream' = s
    /\ tetra_phy' = TetraPhyInit
    /\ UNCHANGED <<cmVars, now, last_status, audioVars, readerVars, syncVars, trunkVars, p25Vars, sdr, tetra,
                   fed, call_left, p25, smartnet, dmr, frame_log>>

\* hammingDistance(seq, TETRA_TRAINING_SEQ_*, 11), the least of the three
TrainingDistance(seq) ==
    Min(Hamming(seq, ToBits(TETRA_TRAINING_SEQ_NORMAL, TETRA_TRAINING_BITS)),
        Min(Hamming(seq, ToBits(TETRA_TRAINING_SEQ_EXTENDED, TETRA_TRAINING_BITS)),
            Hamming(seq, ToBits(TETRA_TRAINING_SEQ_SYNC, TETRA_TRAINING_BITS))))

\* the scan over the positions pos .. last of the buffer whose first bit is head; a
\* position replaces the best one when its distance is strictly less
RECURSIVE ScanTraining(_, _, _, _)
RECURSIVE BetterTraining(_, _, _, _, _)
ScanTraining(head, pos, last, best) ==
    IF pos > last THEN best
    ELSE BetterTraining(head, pos, last, best,
             TrainingDistance(BufferBits(stream, head, pos, TETRA_TRAINING_BITS)))

BetterTraining(head, pos, last, best, min_dist) ==
    IF min_dist < best.best_distance
    THEN ScanTraining(head, pos + 1, last, [best_pos |-> pos, best_distance |-> min_dist])
    ELSE ScanTraining(head, pos + 1, last, best)

\* a detector that still accepts a window with four wrong bits
AcceptTraining_Four(best) ==
    IF best.best_distance <= TETRA_SYNC_ERRORS_ALLOWED + 1
    THEN [found |-> TRUE, removed |-> best.best_pos]
    ELSE [found |-> FALSE, removed |-> 0]

\* accepted with at most sync_errors_allowed_ errors, and then the best_pos bits in
\* front of the sequence are removed
AcceptTraining(best) ==
    IF best.best_distance <= TETRA_SYNC_ERRORS_ALLOWED
    THEN [found |-> TRUE, removed |-> best.best_pos]
    ELSE [found |-> FALSE, removed |-> 0]

\* the window of 11 bits nearest to a training sequence among the positions
\* 0 .. min(size - 11, 64) - 1, the first one among equals
detectTrainingSequence(head, size) ==
    IF size < TETRA_SEARCH_BITS THEN [found |-> FALSE, removed |-> 0]
    ELSE AcceptTraining(ScanTraining(head, 0, Min(size - TETRA_TRAINING_BITS, TETRA_SEARCH_BITS) - 1,
                                     [best_pos |-> 0, best_distance |-> 100]))

\* processSlot: the bits it removes from the buffer, none when it holds less than a slot
TETRA_SlotBits(size) == IF size < TETRA_BITS_PER_SLOT THEN 0 ELSE TETRA_BITS_PER_SLOT

\* the counters after a slot: slot modulo 4, frame modulo 18 on the wrap of the slot,
\* multiframe on the wrap of the frame
TETRA_NextSlot == (tetra_phy.current_slot_ + 1) % TETRA_SLOTS_PER_FRAME
TETRA_FrameWraps ==
    TETRA_NextSlot = 0 /\ tetra_phy.current_frame_ + 1 >= TETRA_FRAMES_PER_MULTIFRAME
TETRA_NextFrame ==
    IF TETRA_NextSlot # 0 THEN tetra_phy.current_frame_
    ELSE IF TETRA_FrameWraps THEN 0 ELSE tetra_phy.current_frame_ + 1
TETRA_NextMultiframe ==
    IF TETRA_FrameWraps THEN tetra_phy.current_multiframe_ + 1
    ELSE tetra_phy.current_multiframe_

\* not locked: lock when detectTrainingSequence found a sequence in the buffer
TETRA_Acquire(head, size, training) ==
    /\ tetra_phy' = [tetra_phy EXCEPT
           !.bit_head = head + training.removed, !.bit_size = size - training.removed,
           !.sync_locked_ = training.found,
           !.frames_without_sync_ = IF training.found THEN 0 ELSE @]
    /\ UNCHANGED frame_log

\* frames_without_sync_ after the verification of the sync
TETRA_Without(training) == IF training.found THEN 0 ELSE tetra_phy.frames_without_sync_ + 1

\* locked, bits_since_sync_ reached 510: processSlot has removed taken bits from the buffer
\* (first bit head, size bits); the counters advance and the sync is verified on what
\* follows
TETRA_Verify(head, size, taken, training, without) ==
    /\ tetra_phy' = [tetra_phy EXCEPT
           !.bit_head = head + taken + training.removed,
           !.bit_size = size - taken - training.removed,
           !.bits_since_sync_ = 0,
           !.current_slot_ = TETRA_NextSlot, !.current_frame_ = TETRA_NextFrame,
           !.current_multiframe_ = TETRA_NextMultiframe,
           !.frames_without_sync_ = without,
           !.sync_locked_ = ~(without > TETRA_MAX_FRAMES_WITHOUT_SYNC)]
    /\ frame_log' = frame_log \o
           (IF taken = 0 THEN <<>>
            ELSE <<[offset |-> head, accepted |-> TRUE,
                    slot |-> tetra_phy.current_slot_,
                    frame |-> tetra_phy.current_frame_,
                    multiframe |-> tetra_phy.current_multiframe_]>>) \o
           (IF without > TETRA_MAX_FRAMES_WITHOUT_SYNC
            THEN <<[offset |-> head + taken + training.removed, accepted |-> FALSE,
                    slot |-> TETRA_NextSlot, frame |-> TETRA_NextFrame,
                    multiframe |-> TETRA_NextMultiframe]>>
            ELSE <<>>)

TETRA_ProcessSlot(head, size, training) ==
    TETRA_Verify(head, size, TETRA_SlotBits(size), training, TETRA_Without(training))

\* the buffer after the push of count bits and the trim to 2 * 2040 bits
TETRA_Buffered(count) ==
    [size |-> Min(tetra_phy.bit_size + count, TETRA_FRAME_BITS * 2),
     head |-> tetra_phy.bit_head + tetra_phy.bit_size + count
              - Min(tetra_phy.bit_size + count, TETRA_FRAME_BITS * 2)]

TETRA_Step(buffer) ==
    IF ~tetra_phy.sync_locked_
    THEN TETRA_Acquire(buffer.head, buffer.size, detectTrainingSequence(buffer.head, buffer.size))
    ELSE IF tetra_phy.bits_since_sync_ + 1 < TETRA_BITS_PER_SLOT
    THEN /\ tetra_phy' = [tetra_phy EXCEPT !.bit_head = buffer.head, !.bit_size = buffer.size,
                                           !.bits_since_sync_ = @ + 1]
         /\ UNCHANGED frame_log
    ELSE TETRA_ProcessSlot(buffer.head, buffer.size,
             detectTrainingSequence(buffer.head + TETRA_SlotBits(buffer.size),
                                    buffer.size - TETRA_SlotBits(buffer.size)))

TETRA_processSymbols ==
    /\ stream.proto = "TETRA"
    /\ fed + stream.count <= stream.length
    /\ fed' = fed + stream.count
    /\ TETRA_Step(TETRA_Buffered(stream.count))
    /\ UNCHANGED <<cmVars, now, last_status, audioVars, readerVars, syncVars, trunkVars, p25Vars, sdr, tetra,
                   stream, call_left, p25, smartnet, dmr>>

NextSlots ==
    \/ \E s \in DMRStreams : DMRDecoder_initialize(s)
    \/ DMR_processSymbols
    \/ \E s \in TetraStreams : TETRAPhysicalLayer_initialize(s)
    \/ TETRA_processSymbols

SpecSlots == Init /\ [][NextSlots]_vars

(***************************************************************************)
(* Claims: call tracker                                                    *)
(***************************************************************************)
OthersUnchanged(tg) ==
    \A t \in (DOMAIN active_calls_) \ {tg} :
        t \in DOMAIN active_calls_' /\ active_calls_'[t] = active_calls_[t]

\* C1: every handleGrant(g) step has one of three effects: g.talkgroup not admitted
\* by the policy - the map and total_calls_ are unchanged; a call for g.talkgroup is
\* active - only that call's last_activity is refreshed; otherwise exactly one
\* fresh ActiveCall (frame_count 0, start_time = last_activity) is inserted and
\* total_calls_ grows by exactly 1.
C1_HandleGrantEffect ==
    [][\A g \in GrantInputs : handleGrant(g) =>
        LET tg == g.talkgroup IN
        IF ~isTalkgroupEnabled(tg)
        THEN active_calls_' = active_calls_ /\ total_calls_' = total_calls_
        ELSE IF tg \in DOMAIN active_calls_
        THEN /\ DOMAIN active_calls_' = DOMAIN active_calls_
             /\ OthersUnchanged(tg)
             /\ active_calls_'[tg] = [active_calls_[tg] EXCEPT !.last_activity = now]
             /\ total_calls_' = total_calls_
        ELSE /\ DOMAIN active_calls_' = (DOMAIN active_calls_) \cup {tg}
             /\ OthersUnchanged(tg)
             /\ active_calls_'[tg].grant = g
             /\ active_calls_'[tg].frame_count = 0
             /\ active_calls_'[tg].start_time = active_calls_'[tg].last_activity
             /\ total_calls_' = total_calls_ + 1]_vars

\* a call inserted by one grant and refreshed by a later one, next to a talkgroup the policy rejects
C1_Witness ==
    \E tg \in DOMAIN active_calls_, t2 \in Talkgroups :
        /\ active_calls_[tg].frame_count = 0
        /\ active_calls_[tg].last_activity > active_calls_[tg].start_time
        /\ total_calls_ = 1
        /\ ~isTalkgroupEnabled(t2)
        /\ t2 \notin DOMAIN active_calls_

\* the talkgroups enabled and not disabled since
EnabledSet == {tg \in DOMAIN enabled_talkgroups_ : enabled_talkgroups_[tg]}

\* C2: after any sequence of enableTalkgroup and disableTalkgroup calls, handleGrant
\* admits talkgroup tg if and only if the set of currently enabled talkgroups is
\* empty or contains tg.
C2_AdmittedIffEnabledSet ==
    \A tg \in Talkgroups : isTalkgroupEnabled(tg) <=> (EnabledSet = {} \/ tg \in EnabledSet)

LongestLoop == CHOOSE d \in LoopSteps : \A e \in LoopSteps : e <= d

\* C3: in the running system every active call that gets no grant and no audio
\* frame for more than 5 s is removed from the active-call map by a sweep that
\* runs in every iteration of the main loop: no call is ever seen idle for longer
\* than the timeout plus one iteration.
C3_StaleCallRemovedBySweep ==
    \A tg \in DOMAIN active_calls_ :
        now - active_calls_[tg].last_activity <= CALL_TIMEOUT_MS + LongestLoop

(***************************************************************************)
(* Claims: P25 decoder                                                     *)
(***************************************************************************)
Opcode(t) == bitsToUint32(t, 0, 6)
IsGrantTSBK(t) == Opcode(t) \in {OP_GROUP_VOICE_GRANT, OP_GROUP_VOICE_UPDATE}
LogBits == [k \in 1..Len(tsbk_log) |-> tsbk_log[k].bits]

GrantNames(t, i) == Opcode(t) = OP_GROUP_VOICE_GRANT /\ bitsToUint32(t, 14, 4) = i
UpdateNames(t, i) == Opcode(t) = OP_IDENTIFIER_UPDATE /\ bitsToUint32(t, 6, 4) = i
SeenBefore(i, k) == \E j \in 1..(k - 1) : UpdateNames(tsbk_log[j].bits, i)

\* C5: a GROUP_VOICE_GRANT naming an identifier i the decoder has never seen emits
\* no grant; once an IDENTIFIER_UPDATE for i has been processed, the next identical
\* GROUP_VOICE_GRANT emits exactly one grant.
C5_GrantAfterIdentifierUpdate ==
    \A k \in 1..Len(tsbk_log), i \in 0..15 :
        GrantNames(tsbk_log[k].bits, i) =>
            /\ ~SeenBefore(i, k) => tsbk_log[k].emitted = 0
            /\ (/\ k >= 3
                /\ tsbk_log[k - 2].bits = tsbk_log[k].bits
                /\ UpdateNames(tsbk_log[k - 1].bits, i)
                /\ bitsToUint32(tsbk_log[k - 1].bits, 10, 32) > 0
                /\ ~SeenBefore(i, k - 1)) => tsbk_log[k].emitted = 1

\* C6: IDENTIFIER_UPDATE(id=1, base_mult=170000000, spacing=100, offset=0) followed by
\* GROUP_VOICE_GRANT(options=0, channel_id=1, channel=5, talkgroup=1234, source=5678)
\* emits exactly one grant: 850 002 500 Hz, talkgroup 1234, radio_id 5678, not encrypted.
C6_IdentifierThenGrantScenario ==
    LogBits = <<IdentifierUpdateTSBK(1, 170000000, 100, 0),
                GrantTSBK(OP_GROUP_VOICE_GRANT, 0, 1, 5, 1234, 5678)>>
    => grants = <<[talkgroup |-> 1234, radio_id |-> 5678, frequency |-> Hz(850002500),
                   encrypted |-> FALSE]>>

(***************************************************************************)
(* Claims: audio frames, playback queue, readers                           *)
(***************************************************************************)
\* C7: handleAudioFrame(tg, pcm) never creates an active call. With no active call
\* for tg the map, total_calls_ and the playback queue are unchanged; with one, its
\* frame_count grows by exactly 1, its last_activity is refreshed and exactly one
\* frame tagged with tg is appended to the playback queue.
C7_AudioFrameEffect ==
    [][\A tg \in Talkgroups, pcm \in PCMInputs : handleAudioFrame(tg, pcm) =>
        /\ DOMAIN active_calls_' = DOMAIN active_calls_
        /\ total_calls_' = total_calls_
        /\ IF tg \notin DOMAIN active_calls_
           THEN active_calls_' = active_calls_ /\ audio_queue_' = audio_queue_
           ELSE /\ OthersUnchanged(tg)
                /\ active_calls_'[tg] = [active_calls_[tg] EXCEPT
                                           !.frame_count = active_calls_[tg].frame_count + 1,
                                           !.last_activity = now]
                /\ Len(audio_queue_') = Len(audio_queue_) + 1
                /\ SubSeq(audio_queue_', 1, Len(audio_queue_)) = audio_queue_
                /\ audio_queue_'[Len(audio_queue_')].talkgroup = tg
                /\ audio_queue_'[Len(audio_queue_')].samples = pcm]_vars

\* one frame accepted for an active call, some time after its grant, while the other talkgroup has no call
C7_Witness ==
    \E tg \in DOMAIN active_calls_, t2 \in Talkgroups :
        /\ t2 \notin DOMAIN active_calls_
        /\ active_calls_[tg].frame_count = 1
        /\ active_calls_[tg].last_activity > active_calls_[tg].start_time
        /\ frames_made = 1
        /\ Len(audio_queue_) = 1
        /\ audio_queue_[1].talkgroup = tg

\* the high-water mark the audio router is configured with
HIGH_WATER_MARK == 1

\* C8: the playback queue is bounded: in every reachable state its depth is at
\* most the configured high-water mark (a frame enqueued at the mark displaces
\* the oldest one).
C8_QueueDepthBounded == Len(audio_queue_) <= HIGH_WATER_MARK

\* C9: under any interleaving of queueAudio and the playback worker, frames reach
\* the sink in exactly the order in which they were enqueued, none of them twice.
C9_SinkInEnqueueOrder ==
    \A i, j \in 1..Len(sink) : i < j => sink[i].seq < sink[j].seq

\* two frames written, the second one enqueued and taken after the first
C9_Witness == Len(sink) = 2 /\ sink[1].seq = 1 /\ sink[2].seq = 2

\* C10: readers of the call tracker only obtain snapshots: outside the operation
\* that holds calls_mutex_, no caller of getActiveCall holds a reference to an
\* entry of the active-call map.
C10_ReadersHoldNoReference == reader_ref = NoRef

\* C12: the playback thread does not hold queue_mutex_ while it is blocked in the sink
\* write (pa_simple_write), so queueAudio, and with it handleAudioFrame and whoever
\* waits for calls_mutex_ behind it, can complete during the write.
C12_WriteOutsideQueueMutex ==
    (worker_pc = "play" /\ worker_frame.samples # <<>>) => queue_mutex_ # "worker"

(***************************************************************************)
(* Claims: call counter and talkgroup policy                               *)
(***************************************************************************)
\* C14: total_calls_ never decreases, and it changes only in a handleGrant step that
\* inserts a new active call, where it grows by exactly 1.
C14_TotalCallsMonotonic ==
    [][/\ total_calls_' >= total_calls_
       /\ total_calls_' # total_calls_ =>
            /\ total_calls_' = total_calls_ + 1
            /\ \E g \in GrantInputs :
                /\ handleGrant(g)
                /\ g.talkgroup \notin DOMAIN active_calls_
                /\ g.talkgroup \in DOMAIN active_calls_']_vars

\* two calls were counted and both have since been removed
C14_Witness == total_calls_ = 2 /\ active_calls_ = EmptyMap

\* C15: disableTalkgroup(tg) leaves the active-call map as it is (an active call for tg
\* keeps its grant, start_time and frame_count); audio frames for tg are still accepted
\* while tg is disabled; a later grant for tg is what the policy turns away.
C15_DisableKeepsActiveCall ==
    [][\A tg \in Talkgroups :
        /\ disableTalkgroup(tg) => (active_calls_' = active_calls_ /\ total_calls_' = total_calls_)
        /\ (handleAudioFrame(tg, VoicePCM) /\ tg \in DOMAIN active_calls_
                /\ ~isTalkgroupEnabled(tg)) =>
              /\ active_calls_'[tg].frame_count = active_calls_[tg].frame_count + 1
              /\ active_calls_'[tg].grant = active_calls_[tg].grant
              /\ active_calls_'[tg].start_time = active_calls_[tg].start_time
              /\ Len(audio_queue_') = Len(audio_queue_) + 1
        /\ \A g \in GrantInputs :
              (handleGrant(g) /\ g.talkgroup = tg /\ ~isTalkgroupEnabled(tg)) =>
                 (active_calls_' = active_calls_ /\ total_calls_' = total_calls_)]_vars

\* a talkgroup disabled while its call is active, the call having taken two frames
C15_Witness ==
    \E tg \in DOMAIN active_calls_ :
        /\ tg \in DOMAIN enabled_talkgroups_
        /\ ~enabled_talkgroups_[tg]
        /\ active_calls_[tg].frame_count = 2

(***************************************************************************)
(* Claims: protocol-level release                                          *)
(***************************************************************************)
\* the talkgroup of the decoder's call that a release PDU names, 0 if it names none
ReleasedTalkgroup(data) ==
    LET call_id == extractBits(data, 8, 24) IN
    IF call_id \in DOMAIN tetra.active_calls_ THEN tetra.active_calls_[call_id].talkgroup ELSE 0

C11_StopNeverWaitsOnUncancelledRead ==
    ~(sdr.stop_pc = "join" /\ sdr.reader_thread_ = "reading" /\ sdr.async_status = "RUNNING")

(***************************************************************************)
(* Claims: framing of P25 and SmartNet                                     *)
(***************************************************************************)
\* C16: after sync is acquired and as long as each frame is accepted, consecutive
\* frames are taken at start offsets exactly 1728 bits apart by P25Decoder and exactly
\* 76 bits apart by SmartNetDecoder, however the symbols are split into calls.
C16_FramesEvenlySpaced ==
    \A i \in 2..Len(frame_log) :
        (stream.proto \in {"P25", "SmartNet"} /\ frame_log[i - 1].accepted /\ frame_log[i].accepted)
            => frame_log[i].offset - frame_log[i - 1].offset
                    = (IF stream.proto = "P25" THEN 1728 ELSE 76)

\* three P25 frames taken after the lock was found behind a full buffer, the grants of
\* the second and third delivered
C16_Witness ==
    /\ stream.proto = "P25"
    /\ stream.name = "late"
    /\ Len(frame_log) = 3
    /\ frame_log[1].offset = 2
    /\ frame_log[3].offset = 2 + 3456
    /\ Len(grants) = 2

\* C19: once locked, a sustained loss of sync makes the decoder leave the locked state
\* (isLocked() false until sync is found again).  On a stream whose sync stops after the
\* first frame, the decoder is out of lock by the time two further frame lengths
\* without sync have gone through it.
C19_SustainedLossUnlocks ==
    /\ (stream.proto = "P25" /\ stream.name = "loss" /\ 2 * fed >= 3 * 1728) => ~isLocked
    /\ (stream.proto = "SmartNet" /\ stream.name = "loss" /\ fed >= 3 * 76) => ~isLocked

\* distance between the 48 bits of the stream from bit k on and the P25 frame sync
SyncDistance(s, k) == Hamming(BufferBits(s, k, 0, 48), P25_FRAME_SYNC_1)

\* C20: a stream that holds the 48-bit frame sync at a dibit-aligned offset with at most
\* 4 bit errors gets P25Decoder locked on that pattern (the decoder is locked once the
\* pattern has gone through it); a stream all of whose 48-bit windows differ from the
\* sync in at least 5 bits never gets it locked.
C20_LocksOnSyncOnly ==
    stream.proto = "P25" =>
        /\ (SyncDistance(stream, stream.sync_at) <= 4 /\ 2 * fed >= stream.sync_at + 48)
                => p25.sync_locked_
        /\ (\A k \in 0..(2 * stream.length - 48) : SyncDistance(stream, k) >= 5)
                => ~p25.sync_locked_

(***************************************************************************)
(* Claims: slot framing of DMR and TETRA                                   *)
(***************************************************************************)
\* C17: once DMRDecoder has sync it processes one slot for every 264 bits received:
\* slots processed one after the other start exactly 264 bits apart in the bit stream
\* and carry alternating slot numbers, and a locked decoder never holds a whole
\* unprocessed slot beyond the bits of the call that just ended, whatever the number
\* of symbols per processSymbols call.
C17_SlotEvery264Bits ==
    stream.proto = "DMR" =>
        /\ \A i \in 1..(Len(frame_log) - 1) :
               (frame_log[i].accepted /\ frame_log[i + 1].accepted) =>
                   /\ frame_log[i + 1].offset - frame_log[i].offset = DMR_FRAME_BITS
                   /\ frame_log[i + 1].slot = 1 - frame_log[i].slot
        /\ dmr.sync_locked_ => dmr.bit_size < DMR_FRAME_BITS + 2 * stream.count

\* C18: while TETRAPhysicalLayer is locked, slots processed one after the other start
\* exactly 510 bits apart in the bit stream; the slot number advances modulo 4, the
\* frame number advances exactly when the slot number wraps to 0 and stays in 0..17,
\* and the multiframe number advances exactly when the frame number wraps.
C18_SlotOf510Bits ==
    stream.proto = "TETRA" =>
        \A i \in 1..(Len(frame_log) - 1) :
            LET a == frame_log[i]
                b == frame_log[i + 1]
            IN (a.accepted /\ b.accepted) =>
                   /\ b.offset - a.offset = TETRA_BITS_PER_SLOT
                   /\ b.slot = (a.slot + 1) % TETRA_SLOTS_PER_FRAME
                   /\ b.frame \in 0..(TETRA_FRAMES_PER_MULTIFRAME - 1)
                   /\ b.frame = IF b.slot = 0 THEN (a.frame + 1) % TETRA_FRAMES_PER_MULTIFRAME
                                ELSE a.frame
                   /\ b.multiframe = IF b.slot = 0 /\ b.frame = 0 THEN a.multiframe + 1
                                     ELSE a.multiframe

(***************************************************************************)
(* DMRDecoder: the payload of a slot.  processSymbols hands processSlot    *)
(* the 264 bits at the front of bit_buffer_: the 48-bit sync pattern, 20   *)
(* slot-type bits and 196 information bits.  grant_callback_ is recorded   *)
(* in grants.                                                              *)
(***************************************************************************)
DMR_INFO_BITS == 196
DMR_SLOT_TYPE_BITS == 20
DMR_CSBK_BITS == 96
CSBK_CHANNEL_GRANT == 6
CSBK_BROADCAST_TALKGROUP_ANNOUNCE == 8
CSBK_PREAMBLE == 61

\* slot_type_bits[4..7], most significant first
extractColorCode(slot_type_bits) ==
    slot_type_bits[5] * 8 + slot_type_bits[6] * 4 + slot_type_bits[7] * 2 + slot_type_bits[8]

decodeSlotType(slot_type_bits) ==
    LET data_type_bits == slot_type_bits[1] * 8 + slot_type_bits[2] * 4
                              + slot_type_bits[3] * 2 + slot_type_bits[4]
    IN CASE data_type_bits = 0 -> "VOICE_LC_HEADER"
         [] data_type_bits = 1 -> "VOICE_TERMINATOR"
         [] data_type_bits = 3 -> "CSBK"
         [] data_type_bits = 6 -> "DATA_HEADER"
         [] data_type_bits = 9 -> "IDLE"
         [] OTHER -> "UNKNOWN"

\* the loop keeps input[i] when i % 15 < 11 until 96 bits are out: output[k] is the
\* (k % 11)-th bit of the (k / 11)-th group of 15
bptc_196_96_decode(input) ==
    [k \in 1..DMR_CSBK_BITS |-> input[((k - 1) \div 11) * 15 + ((k - 1) % 11) + 1]]

extractCSBKOpcode(data) == bitsToUint32(data, 0, 6) % 64

\* bitsToUint32(bits, start, count) reads bits[start] .. bits[start + min(count, 32) - 1];
\* the highest index read by the calls given as <<start, count>>
HighestRead(calls) ==
    LET ends == {c[1] + Min(c[2], 32) - 1 : c \in calls}
    IN CHOOSE e \in ends : \A f \in ends : f <= e
ReadUpTo(highest, calls) ==
    IF HighestRead(calls) > highest THEN HighestRead(calls) ELSE highest

\* detected is the colour code processSlot has just stored in detected_color_code_
parseChannelGrant(data, detected) ==
    LET source_id == bitsToUint32(data, 16, 24)
        dest_id == bitsToUint32(data, 40, 24)
        logical_slot == bitsToUint32(data, 8, 1) % 2
    IN [trunk |-> [dmr_trunk EXCEPT
                      !.detected_color_code_ = detected,
                      !.active_calls_ = MapPut(@, dest_id,
                          [source_id |-> source_id, destination_id |-> dest_id,
                           slot_number |-> logical_slot, color_code |-> detected,
                           frequency |-> dmr_trunk.rest_channel_freq_]),
                      !.calls_decoded_ = @ + 1,
                      !.highest_read_ =
                          ReadUpTo(@, {<<0, 6>>, <<16, 24>>, <<40, 24>>, <<8, 1>>})],
        emitted |-> <<[talkgroup |-> dest_id, radio_id |-> source_id,
                       frequency |-> dmr_trunk.rest_channel_freq_,
                       encrypted |-> FALSE]>>]

processCSBK(info_bits, detected) ==
    LET decoded == bptc_196_96_decode(info_bits) IN
    IF extractCSBKOpcode(decoded) = CSBK_CHANNEL_GRANT
    THEN parseChannelGrant(decoded, detected)
    ELSE IF extractCSBKOpcode(decoded) = CSBK_BROADCAST_TALKGROUP_ANNOUNCE
    THEN [trunk |-> [dmr_trunk EXCEPT !.detected_color_code_ = detected,
                                      !.highest_read_ = ReadUpTo(@, {<<0, 6>>, <<16, 24>>})],
          emitted |-> <<>>]
    ELSE [trunk |-> [dmr_trunk EXCEPT !.detected_color_code_ = detected,
                                      !.highest_read_ = ReadUpTo(@, {<<0, 6>>})],
          emitted |-> <<>>]

\* the seven alias bytes parseTalkerAlias reads: bitsToUint32(data, 64 + i * 8, 8)
parseTalkerAlias == {<<64 + i * 8, 8>> : i \in 0..6}

\* source and destination are read and logged, then the talker alias; nothing is kept
processVoiceLC(info_bits, detected) ==
    [trunk |-> [dmr_trunk EXCEPT
                   !.detected_color_code_ = detected,
                   !.highest_read_ = ReadUpTo(@, {<<16, 24>>, <<40, 24>>} \cup parseTalkerAlias)],
     emitted |-> <<>>]

\* processSlot without the colour-code check
DMR_processSlot_NoColorCheck(slot_num, data) ==
    LET slot_type_bits == SubSeq(data, DMR_SYNC_PATTERN_BITS + 1,
                                 DMR_SYNC_PATTERN_BITS + DMR_SLOT_TYPE_BITS)
        detected == extractColorCode(slot_type_bits)
        info_bits == SubSeq(data, DMR_SYNC_PATTERN_BITS + DMR_SLOT_TYPE_BITS + 1,
                            DMR_SYNC_PATTERN_BITS + DMR_SLOT_TYPE_BITS + DMR_INFO_BITS)
        seen == [dmr_trunk EXCEPT !.detected_color_code_ = detected]
    IN CASE decodeSlotType(slot_type_bits) = "CSBK" -> processCSBK(info_bits, detected)
         [] decodeSlotType(slot_type_bits) = "VOICE_LC_HEADER" ->
               processVoiceLC(info_bits, detected)
         [] decodeSlotType(slot_type_bits) = "VOICE_TERMINATOR" ->
               [trunk |-> [seen EXCEPT !.slot_active_[slot_num + 1] = FALSE],
                emitted |-> <<>>]
         [] OTHER -> [trunk |-> seen, emitted |-> <<>>]

\* the decoder's state after processSlot, and the grants it handed to grant_callback_
DMR_processSlot(slot_num, data) ==
    LET slot_type_bits == SubSeq(data, DMR_SYNC_PATTERN_BITS + 1,
                                 DMR_SYNC_PATTERN_BITS + DMR_SLOT_TYPE_BITS)
        detected == extractColorCode(slot_type_bits)
        info_bits == SubSeq(data, DMR_SYNC_PATTERN_BITS + DMR_SLOT_TYPE_BITS + 1,
                            DMR_SYNC_PATTERN_BITS + DMR_SLOT_TYPE_BITS + DMR_INFO_BITS)
        seen == [dmr_trunk EXCEPT !.detected_color_code_ = detected]
    IN IF detected # dmr_trunk.expected_color_code_
       THEN [trunk |-> seen, emitted |-> <<>>]
       ELSE CASE decodeSlotType(slot_type_bits) = "CSBK" -> processCSBK(info_bits, detected)
              [] decodeSlotType(slot_type_bits) = "VOICE_LC_HEADER" ->
                    processVoiceLC(info_bits, detected)
              [] decodeSlotType(slot_type_bits) = "VOICE_TERMINATOR" ->
                    [trunk |-> [seen EXCEPT !.slot_active_[slot_num + 1] = FALSE],
                     emitted |-> <<>>]
              [] OTHER -> [trunk |-> seen, emitted |-> <<>>]

DMRDecoder_processSlot(slot_num, data) ==
    /\ dmr_trunk.calls_decoded_ < MaxDMRCalls
    /\ dmr_trunk' = DMR_processSlot(slot_num, data).trunk
    /\ grants' = grants \o DMR_processSlot(slot_num, data).emitted
    /\ UNCHANGED <<cmVars, now, last_status, audioVars, readerVars, syncVars, frequency_table_,
                   tsbk_log, sdr, tetra, controller, system_infos, burst_log, frameVars>>

DMRDecoder_setColorCode(cc) ==
    /\ dmr_trunk' = [dmr_trunk EXCEPT !.expected_color_code_ = cc]
    /\ UNCHANGED <<cmVars, now, last_status, audioVars, readerVars, syncVars, p25Vars, sdr, tetra,
                   controller, system_infos, burst_log, frameVars>>

DMRDecoder_setRestChannel(freq) ==
    /\ dmr_trunk' = [dmr_trunk EXCEPT !.rest_channel_freq_ = freq]
    /\ UNCHANGED <<cmVars, now, last_status, audioVars, readerVars, syncVars, p25Vars, sdr, tetra,
                   controller, system_infos, burst_log, frameVars>>

(***************************************************************************)
(* Slots fed to the DMR decoder                                            *)
(***************************************************************************)
\* opcode 6 | 2 | logical slot 1 | 7 | source 24 | destination 24 | 32
CSBK(opcode, logical_slot, source_id, dest_id) ==
    ToBits(opcode, 6) \o <<0, 0>> \o <<logical_slot>> \o ToBits(0, 7)
        \o ToBits(source_id, 24) \o ToBits(dest_id, 24) \o ToBits(0, 32)
\* the 196 information bits that bptc_196_96_decode turns into payload
BptcInfo(payload) ==
    [i \in 1..DMR_INFO_BITS |->
        IF (i - 1) % 15 < 11 /\ ((i - 1) \div 15) * 11 + ((i - 1) % 15) < DMR_CSBK_BITS
        THEN payload[((i - 1) \div 15) * 11 + ((i - 1) % 15) + 1]
        ELSE 0]
\* sync 48 | data type 4 | colour code 4 | 12 | information 196
DMRSlot(data_type, color_code, payload) ==
    DMR_SYNC_BS_SOURCED \o ToBits(data_type, 4) \o ToBits(color_code, 4) \o ToBits(0, 12)
        \o BptcInfo(payload)

DMRColorCodes == {1, 2, 3}
DMRRestChannels == {Hz(446006250)}
DMRSlotInputs ==
    { DMRSlot(3, cc, CSBK(CSBK_CHANNEL_GRANT, 1, 5678, tg)) :
          cc \in DMRColorCodes, tg \in Talkgroups }
    \cup { DMRSlot(3, cc, CSBK(op, 0, 0, 0)) :
               op \in {CSBK_PREAMBLE, CSBK_BROADCAST_TALKGROUP_ANNOUNCE}, cc \in {1, 2} }
    \cup { DMRSlot(ty, cc, CSBK(0, 0, 5678, 101)) : ty \in {0, 1, 9}, cc \in {1, 2} }

NextDmr ==
    \/ \E slot_num \in {0, 1}, data \in DMRSlotInputs : DMRDecoder_processSlot(slot_num, data)
    \/ \E cc \in {1, 3} : DMRDecoder_setColorCode(cc)
    \/ \E freq \in DMRRestChannels : DMRDecoder_setRestChannel(freq)

SpecDmr == Init /\ [][NextDmr]_vars

(***************************************************************************)
(* TETRADecoder::processSymbols: the bursts of the physical layer.         *)
(* TETRAPhysicalLayer::processSlot queues a burst for every slot it        *)
(* decodes: burst.bits is the vector viterbiDecode has written, one        *)
(* decoded bit (0 or 1) in each element, crc_valid is checkCRC16 of that   *)
(* vector and channel is always MCCH.  TETRADecoder::processSymbols takes  *)
(* the bursts off the queue and passes the CRC-valid ones to processBurst, *)
(* which hands burst.bits.data() and burst.bits.size() to the handler of   *)
(* the channel.  system_info_callback_ is recorded in system_infos.        *)
(***************************************************************************)
TETRA_DECODED_BITS == (TETRA_BITS_PER_SLOT * 2) \div 3
TETRA_CRC_BITS == 16
TETRA_CRC_POLY == 4129
TETRA_CRC_INIT == 65535

RECURSIVE BitXor(_, _)
BitXor(a, b) ==
    IF a = 0 THEN b
    ELSE IF b = 0 THEN a
    ELSE (((a % 2) + (b % 2)) % 2) + 2 * BitXor(a \div 2, b \div 2)

\* one turn of the loop of calculateCRC16 on the uint16_t crc
CRCTurn(crc, bit) ==
    IF (IF bit # 0 THEN BitXor(crc, 32768) ELSE crc) >= 32768
    THEN BitXor(((IF bit # 0 THEN BitXor(crc, 32768) ELSE crc) * 2) % 65536, TETRA_CRC_POLY)
    ELSE ((IF bit # 0 THEN BitXor(crc, 32768) ELSE crc) * 2) % 65536
\* the turns of the loop for data[i] .. data[last - 1], crc being the value reached so far
RECURSIVE CRCTurns(_, _, _, _)
CRCTurns(data, last, i, crc) ==
    IF crc < 0 \/ i >= last THEN crc
    ELSE CRCTurns(data, last, i + 1, CRCTurn(crc, data[i + 1]))
\* the whole loop, taken CRCBlock turns at a time
CRCBlock == 20
RECURSIVE CRCLoop(_, _, _, _)
CRCLoop(data, length, i, crc) ==
    IF crc < 0 \/ i >= length THEN crc
    ELSE CRCLoop(data, length, Min(i + CRCBlock, length),
                 CRCTurns(data, Min(i + CRCBlock, length), i, crc))
calculateCRC16(data, length) == CRCLoop(data, length, 0, TETRA_CRC_INIT)

checkCRC16(data) ==
    IF Len(data) < TETRA_CRC_BITS THEN FALSE
    ELSE bitsToUint32(data, Len(data) - TETRA_CRC_BITS, TETRA_CRC_BITS)
            = calculateCRC16(data, Len(data) - TETRA_CRC_BITS)

\* the burst processSlot queues for the decoded bits of a slot
TETRABurst(decoded_bits) ==
    [bits |-> decoded_bits, crc_valid |-> checkCRC16(decoded_bits), channel |-> "MCCH"]

\* the identifiers processBSCH hands to system_info_callback_
processBSCH(data) ==
    IF Len(data) < 60 THEN <<>>
    ELSE <<(extractBits(data, 0, 10) % 65536) * 65536 + (extractBits(data, 10, 14) % 65536)>>

processBurst(burst) ==
    /\ system_infos' = IF burst.channel = "BSCH"
                       THEN system_infos \o processBSCH(burst.bits)
                       ELSE system_infos
    /\ IF burst.channel \in {"MCCH", "AACH", "SCH_F", "SCH_HD"} /\ Len(burst.bits) >= 16
       THEN processMCCH_PDU(burst.bits)
       ELSE UNCHANGED <<tetra, grants, active_calls_, total_calls_>>

\* the loop of processSymbols handing every burst to processBurst, whatever its CRC
TETRADecoder_processBurst_Unchecked(burst) ==
    /\ Len(burst_log) < MaxBursts
    /\ tetra_phy' = [tetra_phy EXCEPT !.crc_errors_ = IF burst.crc_valid THEN @ ELSE @ + 1]
    /\ burst_log' = Append(burst_log, [bits |-> burst.bits, crc_valid |-> burst.crc_valid,
                                       mac |-> TRUE])
    /\ processBurst(burst)
    /\ UNCHANGED <<enabled_talkgroups_, talkgroup_priorities_, now, last_status, audioVars,
                   readerVars, syncVars, frequency_table_, tsbk_log, sdr, controller, dmr_trunk,
                   stream, fed, call_left, p25, smartnet, dmr, frame_log>>

\* the end of processSlot and one turn of the loop of processSymbols: the slot decoded
\* to burst.bits is counted in crc_errors_ when its CRC is wrong and queued either way;
\* getBurst() takes it, and it goes to processBurst (mac) only if crc_valid
TETRADecoder_processBurst(burst) ==
    /\ Len(burst_log) < MaxBursts
    /\ tetra_phy' = [tetra_phy EXCEPT !.crc_errors_ = IF burst.crc_valid THEN @ ELSE @ + 1]
    /\ burst_log' = Append(burst_log, [bits |-> burst.bits, crc_valid |-> burst.crc_valid,
                                       mac |-> burst.crc_valid])
    /\ IF burst.crc_valid
       THEN processBurst(burst)
       ELSE UNCHANGED <<system_infos, tetra, grants, active_calls_, total_calls_>>
    /\ UNCHANGED <<enabled_talkgroups_, talkgroup_priorities_, now, last_status, audioVars,
                   readerVars, syncVars, frequency_table_, tsbk_log, sdr, controller, dmr_trunk,
                   stream, fed, call_left, p25, smartnet, dmr, frame_log>>

(***************************************************************************)
(* Decoded slots fed to the TETRA decoder                                  *)
(***************************************************************************)
TETRA_PAYLOAD_BITS == TETRA_DECODED_BITS - TETRA_CRC_BITS
PadPayload(bits) == bits \o [k \in 1..(TETRA_PAYLOAD_BITS - Len(bits)) |-> 0]
\* payload followed by its CRC, and by a CRC that is off by one
DecodedBits(payload) ==
    PadPayload(payload) \o ToBits(calculateCRC16(PadPayload(payload), TETRA_PAYLOAD_BITS),
                                  TETRA_CRC_BITS)
CorruptBits(payload) ==
    PadPayload(payload)
        \o ToBits((calculateCRC16(PadPayload(payload), TETRA_PAYLOAD_BITS) + 1) % 65536,
                  TETRA_CRC_BITS)

\* PDU type 8 | call type 4 | destination 24 | source 24 | channel 12 | encryption 2
SetupBits(call_type, talkgroup, radio_id, channel, encryption) ==
    ToBits(TETRA_MAC_D_SETUP, 8) \o ToBits(call_type, 4) \o ToBits(talkgroup, 24)
        \o ToBits(radio_id, 24) \o ToBits(channel, 12) \o ToBits(encryption, 2)
\* PDU type 8 | MCC 10 | MNC 14
BroadcastBits(mcc, mnc) == ToBits(TETRA_MAC_BROADCAST, 8) \o ToBits(mcc, 10) \o ToBits(mnc, 14)
\* MCC 10 | MNC 14 | colour code 6
BSCHBits(mcc, mnc, cc) == ToBits(mcc, 10) \o ToBits(mnc, 14) \o ToBits(cc, 6)
\* PDU type 8 | call identifier 24
ReleaseBits(call_id) == ToBits(TETRA_MAC_D_RELEASE, 8) \o ToBits(call_id, 24)

SetupBursts == { TETRABurst(DecodedBits(SetupBits(0, 101, 5678, 400, 0))) }
BroadcastBursts ==
    { TETRABurst(DecodedBits(BroadcastBits(234, 14))),
      TETRABurst(DecodedBits(BSCHBits(234, 14, 1))) }
BurstInputs ==
    SetupBursts \cup BroadcastBursts
        \cup { TETRABurst(DecodedBits(ReleaseBits(0))),
               TETRABurst(DecodedBits(BSCHBits(901, 14, 1))),
               TETRABurst(CorruptBits(SetupBits(0, 101, 5678, 400, 0))),
               TETRABurst(CorruptBits(BSCHBits(234, 14, 1))) }

NextBurst == \E burst \in BurstInputs : TETRADecoder_processBurst(burst)

SpecBurst == Init /\ [][NextBurst]_vars

(***************************************************************************)
(* Claims: the timeout sweep                                               *)
(***************************************************************************)
\* C30: one run of cleanupInactiveCalls at time now removes exactly the calls with
\* now - last_activity > 5000 ms: every call with now - last_activity <= 5000 ms
\* (5000 ms included) stays with all its fields, and total_calls_ is unchanged.
C30_SweepRemovesExactlyStale ==
    [][cleanupInactiveCalls =>
        /\ DOMAIN active_calls_' =
               {tg \in DOMAIN active_calls_ : now - active_calls_[tg].last_activity <= 5000}
        /\ \A tg \in DOMAIN active_calls_' : active_calls_'[tg] = active_calls_[tg]
        /\ total_calls_' = total_calls_]_vars

\* at 5001 ms a call idle since 0 is gone and the call granted at 5001 ms is kept
C30_Witness ==
    /\ now = 5001
    /\ total_calls_ = 2
    /\ DOMAIN active_calls_ = {101}
    /\ active_calls_[101].last_activity = 5001

(***************************************************************************)
(* Claims: P25 identifier table and encryption flag                        *)
(***************************************************************************)
IsReset(entry) == entry.bits = <<>>

\* C26: reset() clears the frequency-identifier table: a GROUP_VOICE_GRANT or
\* GROUP_VOICE_UPDATE processed after a reset() emits no grant unless an
\* IDENTIFIER_UPDATE for the identifier it names was processed since that reset().
C26_ResetClearsIdentifiers ==
    \A r, k \in 1..Len(tsbk_log) :
        (/\ r < k
         /\ IsReset(tsbk_log[r])
         /\ ~IsReset(tsbk_log[k])
         /\ IsGrantTSBK(tsbk_log[k].bits)
         /\ \A u \in (r + 1)..(k - 1) :
                IsReset(tsbk_log[u])
                \/ ~(/\ Opcode(tsbk_log[u].bits) = OP_IDENTIFIER_UPDATE
                     /\ bitsToUint32(tsbk_log[u].bits, 6, 4) = GrantFreqKey(tsbk_log[k].bits)))
        => tsbk_log[k].emitted = 0

\* C27: an IDENTIFIER_UPDATE with identifier id and base-frequency multiplier m leaves
\* the table with id mapped to m * 5 Hz and every other entry as it was; a later
\* update for id overwrites the earlier one.
C27_IdentifierUpdateStoresBase ==
    [][\A t \in TSBKInputs : (processTSBK(t) /\ Opcode(t) = OP_IDENTIFIER_UPDATE) =>
        LET id == BitsValue(SubSeq(t, 7, 10))
            m == BitsValue(SubSeq(t, 11, 42))
        IN /\ DOMAIN frequency_table_' = DOMAIN frequency_table_ \cup {id}
           /\ frequency_table_'[id] = Hz(m * 5)
           /\ \A other \in DOMAIN frequency_table_ \ {id} :
                  frequency_table_'[other] = frequency_table_[other]]_vars

\* C28: the encrypted flag of every grant the decoder emits is bit 6 (mask 0x40) of the
\* 8-bit options field (bits 6..13) of the TSBK that produced it.
C28_EncryptedIsOptionsBit6 ==
    [][\A t \in TSBKInputs : processTSBK(t) =>
        \A k \in (Len(grants) + 1)..Len(grants') :
            grants'[k].encrypted = ((BitsValue(SubSeq(t, 7, 14)) \div 64) % 2 = 1)]_vars

\* a grant from a TSBK with options 0x40 and a grant from a TSBK with options 0
C28_Witness ==
    \E i, j \in 1..Len(grants) : grants[i].encrypted /\ ~grants[j].encrypted

(***************************************************************************)
(* Claims: SmartNet outbound signalling words                              *)
(***************************************************************************)
\* C23: for an OSW with address a and 11-bit command c, a grant is emitted if and only
\* if the top 5 bits of c are 0, and that grant has talkgroup a, radio_id 0,
\* encrypted false and frequency 851000000 + (c mod 64) * 25000 Hz.
C23_GrantIffGroupCall ==
    [][\A bits \in OSWInputs : SmartNetDecoder_processFrame(bits) =>
        LET a == bitsToUint32(bits, 16, 10)
            c == bitsToUint32(bits, 29, 11)
        IN IF c < 64
           THEN grants' = Append(grants, [talkgroup |-> a, radio_id |-> 0,
                                          frequency |-> Hz(851000000 + (c % 64) * 25000),
                                          encrypted |-> FALSE])
           ELSE grants' = grants]_vars

\* address 101 with channel 10 gave talkgroup 101 at 851250000 Hz, and an OSW of
\* another command type gave nothing
C23_Witness ==
    /\ grants = <<[talkgroup |-> 101, radio_id |-> 0, frequency |-> Hz(851250000),
                   encrypted |-> FALSE]>>
    /\ \E k \in 1..Len(frame_log) :
           frame_log[k].emitted = 0 /\ frame_log[k].bits = OSWFrame(101, 0, 74)
(***************************************************************************)
(* Claims: the controller's grant handler                                  *)
(***************************************************************************)
\* C29: handling a call grant forwards it to the call tracker (an enabled talkgroup has an
\* active call afterwards) and changes nothing else: the tuned frequency, the control and
\* voice frequencies, the voice-active flag and the running flag stay as they were, and so
\* does the SDR.
C29_GrantOnlyForwards ==
    [][\A g \in GrantInputs :
          handleCallGrant(g) =>
              /\ controller' = controller
              /\ sdr' = sdr
              /\ isTalkgroupEnabled(g.talkgroup) => g.talkgroup \in DOMAIN active_calls_']_vars
\* a grant has been handled while the controller runs on its control channel, and no voice
\* channel is marked
C29_Witness ==
    /\ controller.running_
    /\ controller.current_frequency_ = ControlChannels[1]
    /\ ~controller.voice_active_
    /\ controller.current_voice_freq_ = 0
    /\ 101 \in DOMAIN active_calls_
    /\ active_calls_[101].grant.frequency = Hz(851250000)
(***************************************************************************)
(* Claims: DMR colour code and rest channel                                *)
(***************************************************************************)
SlotColorCode(data) ==
    extractColorCode(SubSeq(data, DMR_SYNC_PATTERN_BITS + 1,
                            DMR_SYNC_PATTERN_BITS + DMR_SLOT_TYPE_BITS))
\* C24: a slot whose colour code differs from the expected one emits no grant and leaves
\* the active calls, the count of decoded calls and the slot-active flags as they were.
C24_MismatchChangesNothing ==
    [][\A slot_num \in {0, 1}, data \in DMRSlotInputs :
          (/\ DMRDecoder_processSlot(slot_num, data)
           /\ SlotColorCode(data) # dmr_trunk.expected_color_code_)
          => /\ grants' = grants
             /\ dmr_trunk'.active_calls_ = dmr_trunk.active_calls_
             /\ dmr_trunk'.calls_decoded_ = dmr_trunk.calls_decoded_
             /\ dmr_trunk'.slot_active_ = dmr_trunk.slot_active_]_vars
\* a slot of colour code 2 has been processed by a decoder that expects 3 (or 1 before
\* that), and nothing was emitted or recorded
C24_Witness ==
    /\ dmr_trunk.expected_color_code_ = 3
    /\ dmr_trunk.detected_color_code_ = 2
    /\ grants = <<>>
    /\ dmr_trunk.calls_decoded_ = 0

\* C25: no grant is emitted with an unresolved frequency: with no rest-channel frequency
\* set, a CHANNEL_GRANT is dropped rather than emitted with frequency 0.
C25_NoGrantAtFrequencyZero ==
    \A i \in DOMAIN grants : grants[i].frequency # 0
(***************************************************************************)
(* Claims: TETRA bursts                                                    *)
(***************************************************************************)
\* C21: a CRC-valid burst whose decoded bits carry D_SETUP (PDU type 0x02 in the first 8
\* bits, call type 4, destination 24, source 24, channel 12) makes the decoder emit exactly
\* one grant, with talkgroup = destination, radio_id = source and frequency = band base +
\* channel x 25 kHz.
C21_SetupEmitsOneGrant ==
    [][\A burst \in BurstInputs :
          (/\ TETRADecoder_processBurst(burst)
           /\ burst.crc_valid
           /\ bitsToUint32(burst.bits, 0, 8) = TETRA_MAC_D_SETUP)
          => /\ Len(grants') = Len(grants) + 1
             /\ grants'[Len(grants')].talkgroup = bitsToUint32(burst.bits, 12, 24)
             /\ grants'[Len(grants')].radio_id = bitsToUint32(burst.bits, 36, 24)
             /\ grants'[Len(grants')].frequency =
                    Hz(TETRA_BASE_FREQ)
                        + bitsToUint32(burst.bits, 60, 12) * Hz(TETRA_CHANNEL_SPACING)]_vars

\* C22: handling a CRC-valid burst that carries a broadcast PDU with MCC 234 and MNC 14
\* invokes the system-info callback with system_id = (234 << 16) | 14.
C22_BroadcastEmitsSystemId ==
    [][\A burst \in BroadcastBursts :
          (TETRADecoder_processBurst(burst) /\ burst.crc_valid)
          => system_infos' = Append(system_infos, 234 * 65536 + 14)]_vars
(***************************************************************************)
(* TrunkController::start() against the reader thread it starts.           *)
(* start() tunes, starts the SDR (which spawns the reader thread), and     *)
(* only then registers the sample callback in the SDR source and the       *)
(* symbol callback in the demodulator.  The callbacks are std::function    *)
(* objects without a lock: the write of one takes a step of its own, and a *)
(* read by the reader thread during that step is a data race whose outcome *)
(* (callback seen empty or seen set) is not determined.                    *)
(***************************************************************************)
SymbolsPerBuffer == 50
SYMBOL_BATCH == 100

\* start(): tuneToControlChannel(control_channels[0])
Start_tune ==
    /\ startup.pc = "idle"
    /\ startup' = [startup EXCEPT !.pc = "tuned"]
    /\ UNCHANGED <<cmVars, now, last_status, audioVars, readerVars, p25Vars, sdr, tetra,
                   trunkVars, frameVars, twin, locks>>

\* start(): control_sdr_->start(), which sets running_ and spawns readerThread
Start_sdr ==
    /\ startup.pc = "tuned"
    /\ startup' = [startup EXCEPT !.pc = "sdr_started", !.reader_thread_ = TRUE]
    /\ UNCHANGED <<cmVars, now, last_status, audioVars, readerVars, p25Vars, sdr, tetra,
                   trunkVars, frameVars, twin, locks>>

\* start(): control_sdr_->setSampleCallback(...), the assignment to sample_callback_
Start_setSampleCallback_Begin ==
    /\ startup.pc = "sdr_started"
    /\ startup' = [startup EXCEPT !.pc = "writing_sample"]
    /\ UNCHANGED <<cmVars, now, last_status, audioVars, readerVars, p25Vars, sdr, tetra,
                   trunkVars, frameVars, twin, locks>>

Start_setSampleCallback_End ==
    /\ startup.pc = "writing_sample"
    /\ startup' = [startup EXCEPT !.pc = "sample_set", !.sample_callback_ = TRUE]
    /\ UNCHANGED <<cmVars, now, last_status, audioVars, readerVars, p25Vars, sdr, tetra,
                   trunkVars, frameVars, twin, locks>>

\* start(): control_demod_->setSymbolCallback(...), the assignment to symbol_callback_
Start_setSymbolCallback_Begin ==
    /\ startup.pc = "sample_set"
    /\ startup' = [startup EXCEPT !.pc = "writing_symbol"]
    /\ UNCHANGED <<cmVars, now, last_status, audioVars, readerVars, p25Vars, sdr, tetra,
                   trunkVars, frameVars, twin, locks>>

Start_setSymbolCallback_End ==
    /\ startup.pc = "writing_symbol"
    /\ startup' = [startup EXCEPT !.pc = "symbol_set", !.symbol_callback_ = TRUE]
    /\ UNCHANGED <<cmVars, now, last_status, audioVars, readerVars, p25Vars, sdr, tetra,
                   trunkVars, frameVars, twin, locks>>

\* start(): running_ = true
Start_running ==
    /\ startup.pc = "symbol_set"
    /\ startup' = [startup EXCEPT !.pc = "started", !.running_ = TRUE]
    /\ UNCHANGED <<cmVars, now, last_status, audioVars, readerVars, p25Vars, sdr, tetra,
                   trunkVars, frameVars, twin, locks>>

\* the demodulator's process() on one delivered buffer: its symbols go to
\* symbol_buffer_, and at 100 symbols the batch goes to symbol_callback_ if that is
\* set (seen) and symbol_buffer_ is cleared either way
Demod_process(st, seen) ==
    IF st.symbol_buffer_ + SymbolsPerBuffer < SYMBOL_BATCH
    THEN [st EXCEPT !.symbol_buffer_ = @ + SymbolsPerBuffer]
    ELSE [st EXCEPT !.symbol_buffer_ = 0,
                    !.decoded = IF seen THEN @ + 1 ELSE @,
                    !.dropped = IF seen THEN @ ELSE @ + 1]

\* what a read of a callback object finds: its value, or either value when start() is
\* in the middle of writing it
CallbackSeen(writing, value) == IF startup.pc = writing THEN BOOLEAN ELSE {value}

\* the reader thread: rtlsdrCallback -> processBuffer on one buffer of I/Q bytes
RTLSDRSource_processBuffer ==
    /\ startup.reader_thread_
    /\ startup.buffers < MaxBuffers
    /\ \E sample_seen \in CallbackSeen("writing_sample", startup.sample_callback_),
          symbol_seen \in CallbackSeen("writing_symbol", startup.symbol_callback_) :
          LET read == [startup EXCEPT
                          !.buffers = @ + 1,
                          !.race = @ \/ startup.pc = "writing_sample"
                                     \/ (sample_seen /\ startup.pc = "writing_symbol"
                                          /\ startup.symbol_buffer_ + SymbolsPerBuffer
                                                 >= SYMBOL_BATCH)]
          IN startup' = IF ~sample_seen
                        THEN [read EXCEPT !.discarded = @ + 1]
                        ELSE Demod_process([read EXCEPT !.delivered = @ + 1], symbol_seen)
    /\ UNCHANGED <<cmVars, now, last_status, audioVars, readerVars, p25Vars, sdr, tetra,
                   trunkVars, frameVars, twin, locks>>

NextStart ==
    \/ Start_tune
    \/ Start_sdr
    \/ Start_setSampleCallback_Begin
    \/ Start_setSampleCallback_End
    \/ Start_setSymbolCallback_Begin
    \/ Start_setSymbolCallback_End
    \/ Start_running
    \/ RTLSDRSource_processBuffer

SpecStart == Init /\ [][NextStart]_vars

(***************************************************************************)
(* Two DMR decoders on one symbol stream.  The decoder dmr gets the        *)
(* symbols in calls of one or three symbols, the decoder twin.dmr gets the *)
(* same symbols in calls of one symbol each; after every step both have    *)
(* been given the same concatenated stream.                                *)
(***************************************************************************)
ChunkStreams ==
    { [proto |-> "DMR", name |-> "one slot", sync_at |-> 0, errors |-> 0, count |-> 1,
       length |-> 24 + DMR_FRAME_BITS + MaxTail] }

\* k calls of processSymbols with one symbol each on the second decoder
RECURSIVE DMR_calls(_, _)
DMR_calls(t, k) ==
    IF k = 0 THEN t
    ELSE DMR_calls([dmr |-> DMR_call(t.dmr, 1).dmr, log |-> t.log \o DMR_call(t.dmr, 1).log],
                   k - 1)

DMRDecoders_initialize(s) ==
    /\ stream = NoStream
    /\ stream' = s
    /\ dmr' = DMRInit
    /\ twin' = TwinInit
    /\ UNCHANGED <<cmVars, now, last_status, audioVars, readerVars, trunkVars, p25Vars, sdr,
                   tetra, fed, call_left, p25, smartnet, tetra_phy, frame_log, locks, startup>>

\* the next count symbols of the stream: one call for dmr, count calls for the twin
DMR_processSymbols_Both(count) ==
    /\ stream.proto = "DMR"
    /\ fed + count <= stream.length
    /\ fed' = fed + count
    /\ dmr' = DMR_call(dmr, count).dmr
    /\ frame_log' = frame_log \o DMR_call(dmr, count).log
    /\ twin' = DMR_calls(twin, count)
    /\ UNCHANGED <<cmVars, now, last_status, audioVars, readerVars, trunkVars, p25Vars, sdr,
                   tetra, stream, call_left, p25, smartnet, tetra_phy, locks, startup>>

NextChunks ==
    \/ \E s \in ChunkStreams : DMRDecoders_initialize(s)
    \/ \E count \in ChunkSizes : DMR_processSymbols_Both(count)

SpecChunks == Init /\ [][NextChunks]_vars

(***************************************************************************)
(* The mutexes of the call tracker and the audio router, lock by lock.     *)
(* Every operation is the sequence of lock, unlock and sink-write steps    *)
(* its code performs (std::lock_guard: locked at its declaration, unlocked *)
(* at the end of the scope).  A thread blocks at a lock step while another *)
(* thread owns the mutex.                                                  *)
(***************************************************************************)
LockOf(m) == [do |-> "lock", mutex |-> m]
UnlockOf(m) == [do |-> "unlock", mutex |-> m]
SinkWrite == [do |-> "write", mutex |-> "none"]

\* isTalkgroupEnabled and the other operations on the policy: config_mutex_ alone
isTalkgroupEnabled_Locks == <<LockOf("config_mutex_"), UnlockOf("config_mutex_")>>

\* handleGrant taking calls_mutex_ inside the policy lookup
handleGrant_Locks_Nested ==
    <<LockOf("config_mutex_"), LockOf("calls_mutex_"), UnlockOf("calls_mutex_"),
      UnlockOf("config_mutex_")>>

\* handleGrant for an admitted talkgroup: isTalkgroupEnabled has returned, and with it
\* released config_mutex_, before calls_mutex_ is taken
handleGrant_Locks == isTalkgroupEnabled_Locks \o <<LockOf("calls_mutex_"), UnlockOf("calls_mutex_")>>

\* endCall, isCallActive, getActiveCall, getActiveCallCount, cleanupInactiveCalls, and
\* handleAudioFrame for a talkgroup without a call: calls_mutex_ alone
endCall_Locks == <<LockOf("calls_mutex_"), UnlockOf("calls_mutex_")>>

\* handleAudioFrame for an active call: queueAudio takes queue_mutex_ under calls_mutex_
handleAudioFrame_Locks ==
    <<LockOf("calls_mutex_"), LockOf("queue_mutex_"), UnlockOf("queue_mutex_"),
      UnlockOf("calls_mutex_")>>

\* processQueue: queue_mutex_ for its whole body, the write to the sink included; with an
\* empty queue it returns without a write
processQueue_Locks == <<LockOf("queue_mutex_"), SinkWrite, UnlockOf("queue_mutex_")>>
processQueue_Empty_Locks == <<LockOf("queue_mutex_"), UnlockOf("queue_mutex_")>>

LockProgram(op) ==
    CASE op = "handleGrant" -> handleGrant_Locks
      [] op = "handleGrant (not enabled)" -> isTalkgroupEnabled_Locks
      [] op = "enableTalkgroup" -> isTalkgroupEnabled_Locks
      [] op = "handleAudioFrame" -> handleAudioFrame_Locks
      [] op = "endCall" -> endCall_Locks
      [] op = "processQueue" -> processQueue_Locks
      [] op = "processQueue (empty)" -> processQueue_Empty_Locks

\* what each thread runs: the playback thread runs processQueue in a loop, the other
\* threads call into CallManager
ThreadOps(t) ==
    IF t = "playback" THEN {"processQueue", "processQueue (empty)"}
    ELSE {"handleGrant", "handleGrant (not enabled)", "enableTalkgroup", "handleAudioFrame",
          "endCall"}

\* thread t enters operation op
Thread_call(t, op) ==
    /\ locks.op[t] = "none"
    /\ locks' = [locks EXCEPT !.op[t] = op, !.pc[t] = 1]
    /\ UNCHANGED <<cmVars, now, last_status, audioVars, readerVars, p25Vars, sdr, tetra,
                   trunkVars, frameVars, twin, startup>>

\* locks after thread t has done the step at its position and moved on, back to no
\* operation after the last step
LocksAfter(t, instr, last) ==
    LET moved == IF last THEN [locks EXCEPT !.op[t] = "none", !.pc[t] = 0]
                 ELSE [locks EXCEPT !.pc[t] = @ + 1]
    IN CASE instr.do = "lock" -> [moved EXCEPT ![instr.mutex] = t]
         [] instr.do = "unlock" -> [moved EXCEPT ![instr.mutex] = "free"]
         [] instr.do = "write" -> moved

\* the next step of the operation thread t is in; a lock step waits for the mutex
Thread_step(t) ==
    /\ locks.op[t] # "none"
    /\ LET program == LockProgram(locks.op[t])
           instr == program[locks.pc[t]]
       IN /\ instr.do = "lock" => locks[instr.mutex] = "free"
          /\ locks' = LocksAfter(t, instr, locks.pc[t] = Len(program))
    /\ UNCHANGED <<cmVars, now, last_status, audioVars, readerVars, p25Vars, sdr, tetra,
                   trunkVars, frameVars, twin, startup>>

NextLocks ==
    \/ \E t \in Threads : \E op \in ThreadOps(t) : Thread_call(t, op)
    \/ \E t \in Threads : Thread_step(t)

\* A thread inside an operation goes on: a blocked lock() returns once the mutex is
\* released (the playback thread sleeps 10 ms between two runs of processQueue, the
\* callers return to their loops), and the write to the sink returns.
SpecLocks == Init /\ [][NextLocks]_vars /\ \A t \in Threads : SF_vars(Thread_step(t))

(***************************************************************************)
(* Claims: repeated grants                                                 *)
(***************************************************************************)
\* C36: a grant for a talkgroup that already has an active call changes only that
\* call's last_activity: the stored grant (frequency, radio_id, encrypted),
\* start_time, frame_count, the set of entries of the active-call map and
\* total_calls_ are all unchanged, also when the new grant names another
\* frequency or source.
C36_RepeatedGrantOnlyRefreshes ==
    [][\A g \in GrantInputs :
        (handleGrant(g) /\ g.talkgroup \in DOMAIN active_calls_) =>
            /\ DOMAIN active_calls_' = DOMAIN active_calls_
            /\ active_calls_'[g.talkgroup].grant = active_calls_[g.talkgroup].grant
            /\ active_calls_'[g.talkgroup].start_time = active_calls_[g.talkgroup].start_time
            /\ active_calls_'[g.talkgroup].frame_count = active_calls_[g.talkgroup].frame_count
            /\ OthersUnchanged(g.talkgroup)
            /\ total_calls_' = total_calls_]_vars

\* a call refreshed after its start although both grants of its talkgroup differ in
\* frequency and source: whichever grant came second, the stored one is the first
C36_Witness ==
    \E tg \in DOMAIN active_calls_ :
        /\ isTalkgroupEnabled(tg)
        /\ active_calls_[tg].last_activity > active_calls_[tg].start_time
        /\ active_calls_[tg].frame_count = 0
        /\ \E g \in GrantInputs :
              /\ g.talkgroup = tg
              /\ g.frequency # active_calls_[tg].grant.frequency
              /\ g.radio_id # active_calls_[tg].grant.radio_id

(***************************************************************************)
(* Claims: TETRA sync supervision                                          *)
(***************************************************************************)
\* C32: once locked, TETRAPhysicalLayer stays locked while fewer than 10
\* consecutive slots have failed the sync verification, loses the lock as soon as
\* 10 consecutive slots have failed, and sets the count of consecutive failures
\* back to 0 on every slot that passes the verification.
C32_LockLostAtTenFailedSlots ==
    [][(TETRA_processSymbols /\ tetra_phy.sync_locked_) =>
        /\ (tetra_phy'.frames_without_sync_ < 10 => tetra_phy'.sync_locked_)
        /\ (tetra_phy'.frames_without_sync_ >= 10 => ~tetra_phy'.sync_locked_)
        /\ (tetra_phy'.frames_without_sync_ # tetra_phy.frames_without_sync_ =>
               tetra_phy'.frames_without_sync_ \in {0, tetra_phy.frames_without_sync_ + 1})]_vars

\* the parts of C32 the code keeps: locked below 10 failed slots, and the count back at
\* 0 after a slot whose verification passes
C32_LockedBelowTen ==
    [][(TETRA_processSymbols /\ tetra_phy.sync_locked_) =>
        /\ (tetra_phy'.frames_without_sync_ < 10 => tetra_phy'.sync_locked_)
        /\ (tetra_phy'.frames_without_sync_ < tetra_phy.frames_without_sync_ =>
               tetra_phy'.frames_without_sync_ = 0)]_vars

(***************************************************************************)
(* Claims: TETRA training sequence                                         *)
(***************************************************************************)
\* the 11-bit windows detectTrainingSequence looks at in a buffer of size bits
ScannedWindows(size) == 0 .. (Min(size - TETRA_TRAINING_BITS, TETRA_SEARCH_BITS) - 1)

\* some scanned window is within 3 bits of one of the three training sequences
WindowWithinThree(buffer) ==
    /\ buffer.size >= TETRA_SEARCH_BITS
    /\ \E pos \in ScannedWindows(buffer.size) :
          TrainingDistance(BufferBits(stream, buffer.head, pos, TETRA_TRAINING_BITS)) <= 3

\* C34: an unlocked TETRAPhysicalLayer acquires sync in a processSymbols call if and
\* only if one of the 11-bit windows it scans is at Hamming distance at most 3
\* from one of the training sequences 0x0FD, 0x6E4, 0x3AA: three wrong bits lock,
\* four wrong bits (and no other window within distance 3) do not.
C34_LockIffWithinThreeBits ==
    [][(TETRA_processSymbols /\ ~tetra_phy.sync_locked_) =>
        (tetra_phy'.sync_locked_ <=> WindowWithinThree(TETRA_Buffered(stream.count)))]_vars

\* locked on a training sequence received with exactly three wrong bits
C34_Witness ==
    /\ stream.proto = "TETRA"
    /\ Cardinality(stream.flips) = 3
    /\ tetra_phy.sync_locked_
    /\ TrainingDistance(BufferBits(stream, tetra_phy.bit_head, 0, TETRA_TRAINING_BITS)) = 3

(***************************************************************************)
(* Claims: symbols to bits                                                 *)
(***************************************************************************)
\* the number of bits the decoder of the running stream has appended to its bit
\* buffer so far: the stream offset of the end of the buffer
BitsAppended ==
    CASE stream.proto = "P25" -> p25.bit_head + p25.bit_size
      [] stream.proto = "DMR" -> dmr.bit_head + dmr.bit_size
      [] stream.proto = "TETRA" -> tetra_phy.bit_head + tetra_phy.bit_size

\* the symbols of the last processSymbols call
LastSymbols == {k \in 0 .. (fed - 1) : k >= fed - stream.count}

\* C35: every decoder of 4-level symbols (P25, DMR, TETRA) appends exactly two bits
\* per symbol s in 0..3, the upper bit first (s div 2, then s mod 2): the bit
\* stream is the concatenation of the dibits of the symbols in their order.
C35_TwoBitsPerSymbol ==
    stream.proto \in {"P25", "DMR", "TETRA"} =>
        /\ BitsAppended = 2 * fed
        /\ \A k \in LastSymbols :
              /\ PushedBit(stream, 2 * k) = SymbolAt(stream, k) \div 2
              /\ PushedBit(stream, 2 * k + 1) = SymbolAt(stream, k) % 2

\* the same for the DMR decoder alone, which does what C35 says
C35_DMRTwoBitsPerSymbol ==
    stream.proto = "DMR" =>
        /\ BitsAppended = 2 * fed
        /\ \A k \in LastSymbols :
              /\ PushedBit(stream, 2 * k) = SymbolAt(stream, k) \div 2
              /\ PushedBit(stream, 2 * k + 1) = SymbolAt(stream, k) % 2

(***************************************************************************)
(* Claims: TETRA bursts with a wrong CRC                                   *)
(***************************************************************************)
\* C33: no TETRA burst whose CRC check failed is passed to the MAC processing
\* (processBurst): every such burst adds exactly 1 to the count of CRC errors and
\* produces no grant, no system-info event and no change of the decoder's active
\* calls.
C33_BadCrcNeverReachesMac ==
    [][\A burst \in BurstInputs :
        (TETRADecoder_processBurst(burst) /\ ~checkCRC16(burst.bits)) =>
            /\ ~burst_log'[Len(burst_log')].mac
            /\ tetra_phy'.crc_errors_ = tetra_phy.crc_errors_ + 1
            /\ grants' = grants
            /\ system_infos' = system_infos
            /\ tetra' = tetra
            /\ active_calls_' = active_calls_]_vars

\* a burst with a wrong CRC was counted and kept from the MAC after a burst with a
\* right CRC had gone to it
C33_Witness ==
    \E i, j \in 1..Len(burst_log) :
        /\ i < j
        /\ burst_log[i].crc_valid /\ burst_log[i].mac
        /\ ~burst_log[j].crc_valid /\ ~burst_log[j].mac
        /\ tetra_phy.crc_errors_ = 1

(***************************************************************************)
(* Claims: DMR payload reads                                               *)
(***************************************************************************)
\* C40: every bit-field read DMRDecoder performs on a BPTC-decoded payload stays
\* inside its 96 bits (indices 0..95), for every CSBK and every Voice LC header,
\* the extraction of the talker alias included.
C40_ReadsInsidePayload == dmr_trunk.highest_read_ <= DMR_CSBK_BITS - 1

\* the reads of the CSBK handlers alone stay inside the payload
C40_CSBKReadsInsidePayload ==
    [][\A slot_num \in {0, 1}, data \in DMRSlotInputs :
        (DMRDecoder_processSlot(slot_num, data)
            /\ decodeSlotType(SubSeq(data, DMR_SYNC_PATTERN_BITS + 1,
                                     DMR_SYNC_PATTERN_BITS + DMR_SLOT_TYPE_BITS)) = "CSBK"
            /\ dmr_trunk.highest_read_ <= DMR_CSBK_BITS - 1)
        => dmr_trunk'.highest_read_ <= DMR_CSBK_BITS - 1]_vars

(***************************************************************************)
(* Claims: removal of calls                                                *)
(***************************************************************************)
\* the talkgroups whose entry a step takes out of the active-call map
Erased == (DOMAIN active_calls_) \ (DOMAIN active_calls_')

\* C31: each active call is removed exactly once.  The handlers run one at a time
\* under calls_mutex_, so in every interleaving of endCall, the timeout sweep and
\* the other handlers an entry that leaves the map is erased by one step, which is
\* endCall for its talkgroup or the sweep finding it timed out; endCall for a
\* talkgroup with no active call changes nothing; and where endCall(tg) erases
\* tg's entry every other talkgroup's entry is unchanged (the sweep leaves every
\* entry it does not erase unchanged).
C31_EachCallRemovedOnce ==
    [][/\ \A tg \in Talkgroups : endCall(tg) =>
              IF tg \in DOMAIN active_calls_
              THEN Erased = {tg} /\ OthersUnchanged(tg)
              ELSE active_calls_' = active_calls_ /\ total_calls_' = total_calls_
       /\ cleanupInactiveCalls =>
              \A tg \in DOMAIN active_calls_' : active_calls_'[tg] = active_calls_[tg]
       /\ \A tg \in Erased :
              \/ endCall(tg)
              \/ cleanupInactiveCalls /\ TimedOut(active_calls_[tg], now)]_vars

\* two calls were started and the clock has not moved: the one that is gone was ended
\* by endCall, the other one is still there
C31_Witness ==
    /\ now = 0
    /\ total_calls_ = 2
    /\ \E tg \in Talkgroups : DOMAIN active_calls_ = {tg}

(***************************************************************************)
(* Claims: start-up of the pipeline                                        *)
(***************************************************************************)
\* C38: in TrunkController::start the pipeline is wired before any sample flows:
\* in no interleaving does the reader thread deliver or discard an I/Q buffer
\* before the sample callback is registered, or the demodulator complete a batch
\* of symbols before its symbol callback is registered, and start() never writes
\* a callback object while the reader thread may be reading it.
C38_WiredBeforeSamplesFlow ==
    /\ startup.discarded = 0
    /\ startup.dropped = 0
    /\ ~startup.race

(***************************************************************************)
(* Claims: lock order                                                      *)
(***************************************************************************)
Mutexes == {"calls_mutex_", "config_mutex_", "queue_mutex_"}

\* no thread owns calls_mutex_ and config_mutex_ at once
NeverCallsAndConfig ==
    \A t \in Threads : ~(locks.calls_mutex_ = t /\ locks.config_mutex_ = t)

\* a thread that takes queue_mutex_ owns calls_mutex_ or is the playback thread owning
\* nothing else, and no thread takes calls_mutex_ or config_mutex_ while it owns
\* queue_mutex_
QueueAfterCalls ==
    \A t \in Threads :
        /\ (locks.queue_mutex_ # t /\ locks'.queue_mutex_ = t) =>
               (IF t = "playback" THEN locks.calls_mutex_ # t /\ locks.config_mutex_ # t
                ELSE locks.calls_mutex_ = t)
        /\ (locks.calls_mutex_ # t /\ locks'.calls_mutex_ = t) => locks.queue_mutex_ # t
        /\ (locks.config_mutex_ # t /\ locks'.config_mutex_ = t) => locks.queue_mutex_ # t

\* C37: the call tracker and the audio router cannot deadlock: no thread ever holds
\* calls_mutex_ and config_mutex_ at the same time, queue_mutex_ is only ever
\* acquired after calls_mutex_ and never the other way round, and every operation
\* that acquires a mutex releases it in the end (the write to the sink returning),
\* so that every operation a thread has entered returns.
C37_NoDeadlock ==
    /\ []NeverCallsAndConfig
    /\ [][QueueAfterCalls]_vars
    /\ \A t \in Threads : \A m \in Mutexes : (locks[m] = t) ~> (locks[m] # t)
    /\ \A t \in Threads : (locks.op[t] # "none") ~> (locks.op[t] = "none")

\* the reader thread inside handleAudioFrame owns calls_mutex_ and waits for
\* queue_mutex_, which the playback thread owns during its write to the sink, while
\* the main thread waits for calls_mutex_
C37_Witness ==
    /\ locks.op["reader"] = "handleAudioFrame"
    /\ locks.calls_mutex_ = "reader"
    /\ locks.pc["reader"] = 2
    /\ locks.queue_mutex_ = "playback"
    /\ locks.pc["playback"] = 2
    /\ locks.op["main"] = "handleGrant"
    /\ locks.pc["main"] = 3

(***************************************************************************)
(* Claims: partition of the symbol stream                                  *)
(***************************************************************************)
\* C39: what a protocol decoder emits and its lock state depend only on the
\* concatenated symbol stream, not on how the stream is cut into processSymbols
\* calls: a decoder given the symbols in batches and one given the same symbols
\* one per call have processed the same slots and agree on being locked.
C39_PartitionDoesNotMatter ==
    stream.proto = "DMR" =>
        /\ frame_log = twin.log
        /\ dmr.sync_locked_ = twin.dmr.sync_locked_

====
